---- MODULE Spec2Model ----
(***************************************************************************)
(* Model of pkg/k8s/k8s_cluster.go: the K8sCluster handle, its pool of     *)
(* parallelClientEntry values (a buffered channel used as a semaphore),    *)
(* withClientFromPool, and the fan-out operations ListAllObjects and       *)
(* GetObjectsByRefs built on it.                                           *)
(***************************************************************************)
EXTENDS Integers, Sequences, FiniteSets, TLC

(***************************************************************************)
(* Bounds.  The source sets parallelClients = 16 (k8s_cluster.go:71); the  *)
(* pool protocol is checked for a small pool, with more goroutines than    *)
(* pool entries so that callers do block.                                  *)
(***************************************************************************)
parallelClients == 2

NumCallers == 3

\* The polls of waitForDeletedObject considered.
MaxPolls == 3

\* The number of times initClientPool is called again on an existing handle.
MaxInits == 2

\* The warning headers the server sends during one call, in order.
WarningTexts == <<"deprecated">>

Threads == 1..NumCallers

Entries == 1..parallelClients

\* The nil *parallelClientEntry: a value that is no entry.
NoEntry == CHOOSE n \in 0..parallelClients : n \notin Entries

\* The unlocked sync.Mutex: a value that is no goroutine.
NoThread == CHOOSE n \in 0..NumCallers : n \notin Threads

VARIABLES
    clientPool,   \* K8sCluster.clientPool: the buffered channel's content, a queue of entries
    warnings,     \* parallelClientEntry.warnings, per entry
    ctxDone,      \* K8sCluster.ctx is cancelled (ctx.Done() is closed)
    pc,           \* per goroutine: where it is in withClientFromPool
    held,         \* per goroutine: the entry p it received from the channel
    retWarnings,  \* per goroutine: first result of withClientFromPool
    retErr,       \* per goroutine: second result of withClientFromPool
    raised        \* history: the warnings the server raised for the requests of this call

poolVars == <<clientPool, warnings, ctxDone, pc, held, retWarnings, retErr, raised>>

\* One fan-out call (ListAllObjects or GetObjectsByRefs) and its worker pool.
\* The units of work are the goroutines 1..Len(units) of Threads.
VARIABLES
    resources,       \* K8sCluster.Resources: the kinds the resolver's cache maps
    op,              \* the fan-out operation that is running
    verbs,           \* ListAllObjects: the verbs argument
    perIteration,    \* ListAllObjects: the build gives each loop iteration its own gvk variable
    units,           \* what the submitting loop ranges over: the refs, or the filtered kinds
    next,            \* the number of loop iterations begun
    fpc,             \* where the calling goroutine is: "idle", "loop", "returned"
    uState,          \* per unit: "none", "queued", "running", "locked", "finished", "rejected"
    uKey,            \* per unit: the gvk/ref its list/get call was made for
    mutex,           \* the sync.Mutex guarding ret and retApiWarnings: its holder
    ret,             \* the accumulated objects
    retApiWarnings,  \* the accumulated warnings, a map from gvk/ref to warnings
    wpErr,           \* worker pool: the first error a unit returned
    wpStopped,       \* worker pool: it accepts no further submissions
    out              \* what the fan-out call returned

fanVars == <<resources, op, verbs, perIteration, units, next, fpc, uState, uKey,
             mutex, ret, retApiWarnings, wpErr, wpStopped, out>>

\* FixObjectForPatch on one object.
VARIABLES
    ServerVersion,   \* K8sCluster.ServerVersion: the server's minor version
    mustPanics,      \* the build's NewMyJsonPathMust panics on a malformed path (else it matches nothing)
    heap,            \* the objects by pointer: the caller's object and the clone
    fixpc,           \* where the call of FixObjectForPatch is: "idle", "returned", "panicked"
    fixArg,          \* history: the caller's object when FixObjectForPatch was called
    fixRet           \* the pointer FixObjectForPatch returned

fixVars == <<ServerVersion, mustPanics, heap, fixpc, fixArg, fixRet>>

\* The handles, and one write call (PatchObject, UpdateObject or
\* DeleteSingleObject) made by the goroutine Writer.
VARIABLES
    handles,      \* the K8sCluster values: the constructed handle "k" and its clone "k2"
    dryRunArg,    \* history: the dryRun argument of NewK8sCluster
    wpc,          \* where the write call is: "idle", "request", "poll", "sleep", "returned"
    wcall,        \* the call: its operation, handle, options and object
    sent,         \* the write request the server was sent in this call
    polls,        \* the number of polls waitForDeletedObject has begun
    lastPoll,     \* the error of the last poll that returned
    exists,       \* the server still has the object
    cancelEarly,  \* history: the context was cancelled before the call ended, the object
                  \* still there and no failed request waiting to be returned
    wErr,         \* the error the write call returned
    reqErr,       \* history: the error the server answered the write request with
    apiWarnings,  \* the write call's variable apiWarnings
    wWarnings     \* the warnings the write call returned

writeVars ==
    <<handles, dryRunArg, wpc, wcall, sent, polls, lastPoll, exists, cancelEarly, wErr,
      reqErr, apiWarnings, wWarnings>>

\* Pool re-initialization: initClientPool called on handles that already have
\* a pool, with calls in flight on the handle and its read-write clone.
VARIABLES
    cluster,   \* the K8sCluster values "k" and "k2": DryRun and the channel clientPool refers to
    pools,     \* per channel: the entries buffered in it
    made,      \* the number of channels made after the constructor's
    ipc,       \* where initClientPool is: "idle", "drain", "build", "returned"
    ih,        \* the handle initClientPool was called on
    ii,        \* the loop variable i of the loop initClientPool is in
    iOld,      \* history: the channel the handle referred to when initClientPool was called
    iErr,      \* the error initClientPool returned
    closed,    \* the entries whose CloseIdleConnections was called
    cpc,       \* per goroutine: "idle", "select" or "callback"
    ch,        \* per goroutine: the handle withClientFromPool was called on
    cchan,     \* per goroutine: the channel its select receives from
    cheld      \* per goroutine: the build of the entry its callback runs on

initVars == <<cluster, pools, made, ipc, ih, ii, iOld, iErr, closed, cpc, ch, cchan, cheld>>

\* A refresh of the resolver's cache, with goroutines resolving kinds.
VARIABLES
    rpc,       \* where updateResources is: "idle" or "filling"
    fresh,     \* the map updateResources is building
    target,    \* the kinds discovery reported to the refresh
    before,    \* history: the kinds the cache mapped when the refresh began
    looked     \* history: the last resolution a goroutine made

resVars == <<rpc, fresh, target, before, looked>>

\* ProxyGet calls, among other calls on the pool.
VARIABLES
    ppc,       \* per goroutine: where it is in ProxyGet
    wrapper    \* per goroutine: the entry whose client built ret, the rest.ResponseWrapper

proxyVars == <<ppc, wrapper>>

extVars == <<fixVars, writeVars, initVars, resVars, proxyVars>>

vars == <<poolVars, fanVars, extVars>>

(***************************************************************************)
(* Values.                                                                 *)
(***************************************************************************)
\* ApiWarning{Code, Agent, Text}: the n-th warning header of the responses
\* to the requests a callback makes.
ApiWarning(n) == [Code |-> 299, Agent |-> "-", Text |-> WarningTexts[n]]

ErrNil == "nil"

\* fmt.Errorf("failed waiting for free client: %w", k.ctx.Err())
ErrWaitClient == "failed waiting for free client: ctx.Err"

\* What a callback handed to withClientFromPool can do: return nil, return
\* an error, or panic.
CbResults == {ErrNil, "error", "panic"}

\* errors.IsNotFound(err): the server answered 404 for the object or list.
ErrNotFound == "NotFound"

\* meta.IsNoMatchError(err): the resolver maps no resource to the kind.
ErrNoMatch == "NoMatch"

\* Any other error of a request: transport, authorization, a cancelled
\* request context.
ErrOther == "Other"

IsNotFound(e) == e = ErrNotFound

IsNoMatchError(e) == e = ErrNoMatch

(***************************************************************************)
(* Discovery.  The kinds the API server can serve, with their verbs; the   *)
(* custom kind Widget may be installed or not, and the resolver's cache    *)
(* holds the kinds of its last refresh.                                    *)
(***************************************************************************)
\* schema.GroupVersionKind
GVK(kind) == [Group |-> "", Version |-> "v1", Kind |-> kind]

\* The order in which the resolver lists its kinds.
KindOrder == <<GVK("ConfigMap"), GVK("TokenReview"), GVK("Widget")>>

Kinds == {KindOrder[i] : i \in 1..Len(KindOrder)}

\* v1.APIResource.Verbs of each kind.
APIVerbs ==
    [g \in Kinds |->
        CASE g.Kind = "ConfigMap" -> <<"get", "list", "delete">>
          [] g.Kind = "TokenReview" -> <<"create">>
          [] g.Kind = "Widget" -> <<"delete", "get", "list">>]

Snapshots == {Kinds, Kinds \ {GVK("Widget")}}

\* The verbs arguments callers pass to ListAllObjects.
VerbArgs == {<<>>, <<"list">>, <<"create">>, <<"watch", "list">>, <<"watch">>}

\* k8s.ObjectRef: one object of each kind.
ObjectRef(gvk) == [GVK |-> gvk, Name |-> "x"]

Refs == {ObjectRef(g) : g \in Kinds}

\* The zero value of a unit that made no call.
NoKey == [Name |-> ""]

\* The gvk a unit key stands for: an ObjectRef's GVK, or the gvk itself.
GVKOf(key) == IF key \in Refs THEN key.GVK ELSE key

NoResult == [objs |-> <<>>, warnings |-> <<>>, err |-> ErrNil]

(***************************************************************************)
(* initClientPool: parallelClients entries are built, each with an empty   *)
(* warning list, and sent into the new channel.                            *)
(***************************************************************************)
initClientPool == [i \in 1..parallelClients |-> i]

PoolInit ==
    /\ clientPool = initClientPool
    /\ warnings = [e \in Entries |-> <<>>]
    /\ ctxDone = FALSE
    /\ pc = [t \in Threads |-> "idle"]
    /\ held = [t \in Threads |-> NoEntry]
    /\ retWarnings = [t \in Threads |-> <<>>]
    /\ retErr = [t \in Threads |-> ErrNil]
    /\ raised = [t \in Threads |-> <<>>]

FanInit ==
    /\ resources \in Snapshots
    /\ op = "none"
    /\ verbs = <<>>
    /\ perIteration = TRUE
    /\ units = <<>>
    /\ next = 0
    /\ fpc = "idle"
    /\ uState = [t \in Threads |-> "none"]
    /\ uKey = [t \in Threads |-> NoKey]
    /\ mutex = NoThread
    /\ ret = <<>>
    /\ retApiWarnings = <<>>
    /\ wpErr = ErrNil
    /\ wpStopped = FALSE
    /\ out = NoResult

\* No object: the nil *uo.UnstructuredObject.
NoTree == [t |-> "nil"]

Ptrs == {"o", "clone"}

NilPtr == "nil"

\* The minor versions of the servers considered, around v1_21 and v1_1000.
v1_21 == 21

v1_1000 == 1000

ServerVersions == {v1_21 - 1, v1_21, v1_1000}

\* No object is being normalized.
FixIdle ==
    /\ ServerVersion = v1_21
    /\ mustPanics = TRUE
    /\ heap = [p \in Ptrs |-> NoTree]
    /\ fixpc = "idle"
    /\ fixArg = NoTree
    /\ fixRet = NilPtr

Handles == {"k", "k2"}

\* No handle: the clone before ReadWrite has made it.
NoHandle == [nil |-> TRUE]

\* k := &K8sCluster{ctx: ctx, DryRun: dryRun, ...}; k.initClientPool()
NewK8sCluster(dryRun) == [DryRun |-> dryRun, clientPool |-> "chan"]

NoCall == [op |-> "none"]

NoRequest == [verb |-> "none"]

\* No write call is made on a handle constructed with dryRun = false.
WriteIdle ==
    /\ handles = [h \in Handles |-> IF h = "k" THEN NewK8sCluster(FALSE) ELSE NoHandle]
    /\ dryRunArg = FALSE
    /\ wpc = "idle"
    /\ wcall = NoCall
    /\ sent = NoRequest
    /\ polls = 0
    /\ lastPoll = ErrNil
    /\ exists = TRUE
    /\ cancelEarly = FALSE
    /\ wErr = ErrNil
    /\ reqErr = ErrNil
    /\ apiWarnings = <<>>
    /\ wWarnings = <<>>

\* The channels: 0 is the one the constructor made.
Chans == 0..MaxInits

\* Entries are told apart by the channel they were built for: the entries
\* one run of the build loop makes are alike. A collection of entries is
\* the number of entries it has of each build.
NoEntries == [g \in Chans |-> 0]

\* n entries of build g added to the collection es.
Put(es, g, n) == [es EXCEPT ![g] = @ + n]

\* The calling goroutine holds no entry.
NoBuild == CHOOSE n \in -1..MaxInits : n \notin Chans

\* The handle and its pool as NewK8sCluster returns them: one channel
\* holding parallelClients entries; no clone yet, nothing in flight.
ReinitIdle ==
    /\ cluster = [h \in Handles |->
            IF h = "k" THEN [NewK8sCluster(FALSE) EXCEPT !.clientPool = 0] ELSE NoHandle]
    /\ pools = [c \in Chans |-> IF c = 0 THEN Put(NoEntries, 0, parallelClients) ELSE NoEntries]
    /\ made = 0
    /\ ipc = "idle"
    /\ ih = "k"
    /\ ii = 0
    /\ iOld = 0
    /\ iErr = ErrNil
    /\ closed = NoEntries
    /\ cpc = [t \in Threads |-> "idle"]
    /\ ch = [t \in Threads |-> "k"]
    /\ cchan = [t \in Threads |-> 0]
    /\ cheld = [t \in Threads |-> NoBuild]

\* No resolution was made.
NoLookup == [gvk |-> NoKey]

\* No refresh is running and no kind is being resolved.
ResolverIdle ==
    /\ rpc = "idle"
    /\ fresh = {}
    /\ target = {}
    /\ before = {}
    /\ looked = NoLookup

\* No ProxyGet is running.
ProxyIdle ==
    /\ ppc = [t \in Threads |-> "none"]
    /\ wrapper = [t \in Threads |-> NoEntry]

Init == PoolInit /\ FanInit /\ FixIdle /\ WriteIdle /\ ReinitIdle /\ ResolverIdle /\ ProxyIdle

(***************************************************************************)
(* withClientFromPool, step by step.                                       *)
(***************************************************************************)
\* A goroutine enters withClientFromPool and reaches the select statement.
EnterSelect(t) ==
    /\ pc' = [pc EXCEPT ![t] = "select"]
    /\ retWarnings' = [retWarnings EXCEPT ![t] = <<>>]
    /\ retErr' = [retErr EXCEPT ![t] = ErrNil]
    /\ raised' = [raised EXCEPT ![t] = <<>>]
    /\ UNCHANGED <<clientPool, warnings, ctxDone, held>>

\* Mutant of Checkout: the entry is read but left in the channel.
CheckoutPeek(t) ==
    /\ pc[t] = "select"
    /\ clientPool # <<>>
    /\ held' = [held EXCEPT ![t] = Head(clientPool)]
    /\ warnings' = [warnings EXCEPT ![Head(clientPool)] = <<>>]
    /\ pc' = [pc EXCEPT ![t] = "cb"]
    /\ UNCHANGED <<clientPool, ctxDone, retWarnings, retErr, raised>>

\* Mutant of Checkout: p.warnings is not reset.
CheckoutNoReset(t) ==
    /\ pc[t] = "select"
    /\ clientPool # <<>>
    /\ held' = [held EXCEPT ![t] = Head(clientPool)]
    /\ clientPool' = Tail(clientPool)
    /\ pc' = [pc EXCEPT ![t] = "cb"]
    /\ UNCHANGED <<warnings, ctxDone, retWarnings, retErr, raised>>

\* case p := <-k.clientPool: the deferred checkin is registered,
\* p.warnings = nil, and cb(p) is called.
Checkout(t) ==
    /\ pc[t] = "select"
    /\ clientPool # <<>>
    /\ held' = [held EXCEPT ![t] = Head(clientPool)]
    /\ clientPool' = Tail(clientPool)
    /\ warnings' = [warnings EXCEPT ![Head(clientPool)] = <<>>]
    /\ pc' = [pc EXCEPT ![t] = "cb"]
    /\ UNCHANGED <<ctxDone, retWarnings, retErr, raised>>

\* Mutant of SelectCtxDone: a cancelled wait reports no error.
SelectCtxDoneNoErr(t) ==
    /\ pc[t] = "select"
    /\ ctxDone
    /\ retWarnings' = [retWarnings EXCEPT ![t] = <<>>]
    /\ retErr' = [retErr EXCEPT ![t] = ErrNil]
    /\ pc' = [pc EXCEPT ![t] = "done"]
    /\ UNCHANGED <<clientPool, warnings, ctxDone, held, raised>>

\* case <-k.ctx.Done(): return nil and the wrapped context error.  Go's
\* select picks any ready case, so this competes with Checkout when an
\* entry is idle too.
SelectCtxDone(t) ==
    /\ pc[t] = "select"
    /\ ctxDone
    /\ retWarnings' = [retWarnings EXCEPT ![t] = <<>>]
    /\ retErr' = [retErr EXCEPT ![t] = ErrWaitClient]
    /\ pc' = [pc EXCEPT ![t] = "done"]
    /\ UNCHANGED <<clientPool, warnings, ctxDone, held, raised>>

\* A response to a request made through the held entry's clients carries a
\* Warning header: the entry, being the WarningHandler of its own rest
\* config, appends it to p.warnings.
HandleWarningHeader(t) ==
    /\ pc[t] = "cb"
    /\ Len(raised[t]) < Len(WarningTexts)
    /\ warnings' = [warnings EXCEPT
                      ![held[t]] = Append(@, ApiWarning(Len(raised[t]) + 1))]
    /\ raised' = [raised EXCEPT ![t] = Append(@, ApiWarning(Len(@) + 1))]
    /\ UNCHANGED <<clientPool, ctxDone, pc, held, retWarnings, retErr>>

\* Mutant of CallbackReturn: the entry goes back only when the callback
\* returned nil (a checkin written after cb(p) instead of deferred).
CallbackReturnCheckinOnSuccess(t, e) ==
    /\ pc[t] = "cb"
    /\ clientPool' = IF e = ErrNil THEN Append(clientPool, held[t]) ELSE clientPool
    /\ held' = [held EXCEPT ![t] = IF e = ErrNil THEN NoEntry ELSE @]
    /\ IF e = "panic"
         THEN /\ pc' = [pc EXCEPT ![t] = "panicked"]
              /\ raised' = [raised EXCEPT ![t] = <<>>]
              /\ UNCHANGED <<retWarnings, retErr>>
         ELSE /\ retWarnings' = [retWarnings EXCEPT ![t] = warnings[held[t]]]
              /\ retErr' = [retErr EXCEPT ![t] = e]
              /\ pc' = [pc EXCEPT ![t] = "done"]
              /\ UNCHANGED raised
    /\ UNCHANGED <<warnings, ctxDone>>

\* Mutant of CallbackReturn: the entry is not sent back.
CallbackReturnNoCheckin(t, e) ==
    /\ pc[t] = "cb"
    /\ retWarnings' = [retWarnings EXCEPT ![t] = warnings[held[t]]]
    /\ retErr' = [retErr EXCEPT ![t] = e]
    /\ pc' = [pc EXCEPT ![t] = "done"]
    /\ UNCHANGED <<clientPool, held, raised, warnings, ctxDone>>

\* cb(p) ends and the call with it.  When cb(p) returns e, the results are a
\* copy of p.warnings and e; when it panics there are no results.  Either
\* way the deferred function then sends p back into the channel, which has
\* room for all parallelClients entries, so the send never blocks.
CallbackReturn(t, e) ==
    /\ pc[t] = "cb"
    /\ clientPool' = Append(clientPool, held[t])
    /\ held' = [held EXCEPT ![t] = NoEntry]
    /\ IF e = "panic"
         THEN /\ pc' = [pc EXCEPT ![t] = "panicked"]
              /\ raised' = [raised EXCEPT ![t] = <<>>]
              /\ UNCHANGED <<retWarnings, retErr>>
         ELSE /\ retWarnings' = [retWarnings EXCEPT ![t] = warnings[held[t]]]
              /\ retErr' = [retErr EXCEPT ![t] = e]
              /\ pc' = [pc EXCEPT ![t] = "done"]
              /\ UNCHANGED raised
    /\ UNCHANGED <<warnings, ctxDone>>

\* The context handed to NewK8sCluster is cancelled by its owner.
Cancel ==
    /\ ~ctxDone
    /\ ctxDone' = TRUE
    /\ UNCHANGED <<clientPool, warnings, pc, held, retWarnings, retErr, raised>>

(***************************************************************************)
(* The resolver (K8sCluster.Resources) and the helpers of pkg/utils.        *)
(***************************************************************************)
\* utils.FindStrInSlice: the index of s in the slice a, counted from 0, or -1.
FindStrInSlice(a, s) ==
    IF \E i \in 1..Len(a) : a[i] = s
      THEN (CHOOSE i \in 1..Len(a) : a[i] = s /\ \A j \in 1..(i - 1) : a[j] # s) - 1
      ELSE -1

\* The loop of filter with the result of FindStrInSlice compared with 0.
RECURSIVE filterFromZero(_, _, _)
filterFromZero(vs, arVerbs, i) ==
    IF i > Len(vs) THEN FALSE
    ELSE IF FindStrInSlice(arVerbs, vs[i]) # 0 THEN TRUE
    ELSE filterFromZero(vs, arVerbs, i + 1)

\* The loop of ListAllObjects' filter closure over verbs, from index i on:
\* foundVerb becomes true at the first requested verb the resource has.
RECURSIVE filterFrom(_, _, _)
filterFrom(vs, arVerbs, i) ==
    IF i > Len(vs) THEN FALSE
    ELSE IF FindStrInSlice(arVerbs, vs[i]) # -1 THEN TRUE
    ELSE filterFrom(vs, arVerbs, i + 1)

\* Mutant of filter, with the loop of filterFromZero.
filterZero(vs, arVerbs) == filterFromZero(vs, arVerbs, 1)

\* filter := func(ar *v1.APIResource) bool, for the verbs argument vs.
filter(vs, arVerbs) == filterFrom(vs, arVerbs, 1)

\* k8sResources.GetFilteredPreferredGVKs: the kinds of the resolver's cache
\* whose APIResource passes the filter.
GetFilteredPreferredGVKs(vs) ==
    SelectSeq(KindOrder, LAMBDA g : g \in resources /\ filter(vs, APIVerbs[g]))

\* k8sResources.GetGVRForGVK: nil, or the no-match error for a kind the
\* cache does not map.
GetGVRForGVK(gvk) == IF gvk \in resources THEN ErrNil ELSE ErrNoMatch

\* k8sResources.updateResources: the cache is replaced by what discovery
\* reports now.
UpdateResources ==
    /\ fpc = "loop"
    /\ resources' \in Snapshots \ {resources}
    /\ UNCHANGED <<extVars, poolVars, op, verbs, perIteration, units, next, fpc, uState, uKey,
                   mutex, ret, retApiWarnings, wpErr, wpStopped, out>>

(***************************************************************************)
(* utils.WorkerPoolWithErrors: at most Budget units run at a time; the      *)
(* first error a unit returns stops the pool from accepting submissions     *)
(* and is what StopWait returns; units in flight finish.                    *)
(***************************************************************************)
\* NewWorkerPoolWithErrors(32) in GetObjectsByRefs and (8) in ListAllObjects,
\* in the source's proportion to parallelClients = 16.
RefWorkers == 2 * parallelClients

ListWorkers == parallelClients \div 2

Budget == IF op = "ListAllObjects" THEN ListWorkers ELSE RefWorkers

Units == 1..Len(units)

Running == {u \in Units : uState[u] \in {"running", "locked"}}

\* wp.Submit: the state of a unit just submitted.
WpSubmit == IF wpStopped THEN "rejected" ELSE "queued"

\* A unit's function returned e.
WpDone(u, e) ==
    /\ uState' = [uState EXCEPT ![u] = "finished"]
    /\ wpErr' = IF e # ErrNil /\ wpErr = ErrNil THEN e ELSE wpErr
    /\ wpStopped' = (wpStopped \/ e # ErrNil)

\* The object a get of ref, or a list of kind, answers with.
Obj(key) == [of |-> key]

(***************************************************************************)
(* ListAllObjects and GetObjectsByRefs.                                     *)
(***************************************************************************)
\* The position of a kind in KindOrder.
KindIndex(g) == CHOOSE i \in 1..Len(KindOrder) : KindOrder[i] = g

\* The refs arguments: the sequences of distinct refs whose kinds come in
\* the resolver's order or in the reverse of it.
RefSeqs ==
    {q \in UNION {[1..n -> Refs] : n \in 0..Cardinality(Refs)} :
        \/ \A i, j \in DOMAIN q : i < j => KindIndex(q[i].GVK) < KindIndex(q[j].GVK)
        \/ \A i, j \in DOMAIN q : i < j => KindIndex(q[i].GVK) > KindIndex(q[j].GVK)}

BeginGetObjectsByRefs(refs) ==
    /\ fpc = "idle"
    /\ Len(refs) <= NumCallers
    /\ op' = "GetObjectsByRefs"
    /\ units' = refs
    /\ fpc' = "loop"
    /\ UNCHANGED <<extVars, poolVars, resources, verbs, perIteration, next, uState, uKey,
                   mutex, ret, retApiWarnings, wpErr, wpStopped, out>>

BeginListAllObjects(vs, own) ==
    /\ fpc = "idle"
    /\ op' = "ListAllObjects"
    /\ verbs' = vs
    /\ perIteration' = own
    /\ units' = GetFilteredPreferredGVKs(vs)
    /\ fpc' = "loop"
    /\ UNCHANGED <<extVars, poolVars, resources, next, uState, uKey,
                   mutex, ret, retApiWarnings, wpErr, wpStopped, out>>

\* for _, gvk := range ... { wp.Submit(func() error {...}) }: one iteration.
Submit ==
    /\ fpc = "loop"
    /\ next < Len(units)
    /\ next' = next + 1
    /\ uState' = [uState EXCEPT ![next + 1] = WpSubmit]
    /\ UNCHANGED <<extVars, poolVars, resources, op, verbs, perIteration, units, fpc, uKey,
                   mutex, ret, retApiWarnings, wpErr, wpStopped, out>>

\* What unit u's closure reads from the captured loop variable.  In
\* GetObjectsByRefs the closure captures the copy ref := ref_.  In
\* ListAllObjects it captures gvk itself: with one variable per iteration
\* that is the unit's own kind, with one variable for the whole loop it is
\* the kind of the iteration the loop is in.
LoopVar(u) == IF perIteration THEN units[u] ELSE units[next]

\* The worker pool starts a queued unit: the closure calls GetSingleObject,
\* ListObjects or ListObjectsMetadata, which enters withClientFromPool.
StartUnit(u) ==
    /\ u \in Units
    /\ uState[u] = "queued"
    /\ Cardinality(Running) < Budget
    /\ uState' = [uState EXCEPT ![u] = "running"]
    /\ uKey' = [uKey EXCEPT ![u] = LoopVar(u)]
    /\ EnterSelect(u)
    /\ UNCHANGED <<extVars, resources, op, verbs, perIteration, units, next, fpc,
                   mutex, ret, retApiWarnings, wpErr, wpStopped, out>>

\* A stopped worker pool may leave a unit it had queued unstarted.
DropUnit(u) ==
    /\ u \in Units
    /\ uState[u] = "queued"
    /\ wpStopped
    /\ uState' = [uState EXCEPT ![u] = "rejected"]
    /\ UNCHANGED <<extVars, poolVars, resources, op, verbs, perIteration, units, next, fpc, uKey,
                   mutex, ret, retApiWarnings, wpErr, wpStopped, out>>

InCall(u) == u \in Units /\ uState[u] = "running"

UnitCheckout(u) == InCall(u) /\ Checkout(u) /\ UNCHANGED <<fanVars, extVars>>

UnitCtxDone(u) == InCall(u) /\ SelectCtxDone(u) /\ UNCHANGED <<fanVars, extVars>>

\* withDynamicClientForGVK / withMetadataClientForGVK: the callback first
\* resolves the kind and returns the resolver's error without a request;
\* otherwise it makes the request, whose response may carry warnings.
UnitWarning(u) ==
    /\ InCall(u)
    /\ GetGVRForGVK(GVKOf(uKey[u])) = ErrNil
    /\ HandleWarningHeader(u)
    /\ UNCHANGED <<fanVars, extVars>>

\* What the callback of unit u can return.
UnitResults(u) ==
    IF raised[u] = <<>> /\ GetGVRForGVK(GVKOf(uKey[u])) # ErrNil
      THEN {GetGVRForGVK(GVKOf(uKey[u]))}
      ELSE {ErrNil, ErrNotFound, ErrOther}

UnitCallback(u) ==
    /\ InCall(u)
    /\ \E e \in UnitResults(u) : CallbackReturn(u, e)
    /\ UNCHANGED <<fanVars, extVars>>

\* Mutant of Returned: the unit goes on while its list/get call is running.
ReturnedEarly(u) == InCall(u)

\* The list/get call of unit u has returned.
Returned(u) == InCall(u) /\ pc[u] = "done"

\* ListAllObjects' unit: if err != nil && !errors.IsNotFound(err) { return err }:
\* the error the unit returns before it takes the mutex, for the error e of
\* ListObjects / ListObjectsMetadata.
ListUnitError(e) == IF e # ErrNil /\ ~IsNotFound(e) THEN e ELSE ErrNil

ListUnitFail(u) ==
    /\ Returned(u)
    /\ op = "ListAllObjects"
    /\ ListUnitError(retErr[u]) # ErrNil
    /\ WpDone(u, ListUnitError(retErr[u]))
    /\ UNCHANGED <<extVars, poolVars, resources, op, verbs, perIteration, units, next, fpc, uKey,
                   mutex, ret, retApiWarnings, out>>

\* mutex.Lock()
UnitLock(u) ==
    /\ Returned(u)
    /\ op = "ListAllObjects" => ListUnitError(retErr[u]) = ErrNil
    /\ mutex = NoThread
    /\ mutex' = u
    /\ uState' = [uState EXCEPT ![u] = "locked"]
    /\ UNCHANGED <<extVars, poolVars, resources, op, verbs, perIteration, units, next, fpc, uKey,
                   ret, retApiWarnings, wpErr, wpStopped, out>>

\* Mutant of GetUnitError: every error of a get is tolerated.
GetUnitErrorNone(e) == ErrNil

\* Mutant of GetUnitError: no error of a get is tolerated.
GetUnitErrorAll(e) == e

\* GetObjectsByRefs' unit, under the mutex: the error it returns for the
\* error e of GetSingleObject.
GetUnitError(e) ==
    IF e # ErrNil
      THEN IF IsNotFound(e) \/ IsNoMatchError(e) THEN ErrNil ELSE e
      ELSE ErrNil

\* retApiWarnings[key] = w
SetWarnings(m, key, w) == [k \in DOMAIN m \cup {key} |-> IF k = key THEN w ELSE m[k]]

\* The critical section of a unit, up to the deferred mutex.Unlock().
UnitMerge(u) ==
    /\ u \in Units
    /\ uState[u] = "locked"
    /\ mutex' = NoThread
    /\ IF op = "ListAllObjects"
         THEN /\ ret' = IF retErr[u] = ErrNil THEN Append(ret, Obj(uKey[u])) ELSE ret
              /\ retApiWarnings' =
                    IF Len(retWarnings[u]) # 0
                      THEN SetWarnings(retApiWarnings, LoopVar(u), retWarnings[u])
                      ELSE retApiWarnings
              /\ WpDone(u, ErrNil)
         ELSE /\ retApiWarnings' =
                    IF Len(retWarnings[u]) # 0
                      THEN SetWarnings(retApiWarnings, units[u], retWarnings[u])
                      ELSE retApiWarnings
              /\ ret' = IF retErr[u] = ErrNil THEN Append(ret, Obj(units[u])) ELSE ret
              /\ WpDone(u, GetUnitError(retErr[u]))
    /\ UNCHANGED <<extVars, poolVars, resources, op, verbs, perIteration, units, next, fpc, uKey, out>>

\* Mutant of FanoutReturn: the accumulated objects are returned with the error.
FanoutReturnPartial(err) ==
    [objs |-> ret, warnings |-> retApiWarnings, err |-> err]

\* err := wp.StopWait(false); if err != nil { return nil, retApiWarnings, err };
\* return ret, retApiWarnings, nil
FanoutReturn(err) ==
    IF err # ErrNil
      THEN [objs |-> <<>>, warnings |-> retApiWarnings, err |-> err]
      ELSE [objs |-> ret, warnings |-> retApiWarnings, err |-> ErrNil]

\* wp.StopWait(false) returns once the loop is over and no unit is queued or
\* running, with the worker pool's error.
StopWait ==
    /\ fpc = "loop"
    /\ next = Len(units)
    /\ \A u \in Units : uState[u] \in {"finished", "rejected"}
    /\ out' = FanoutReturn(wpErr)
    /\ fpc' = "returned"
    /\ UNCHANGED <<extVars, poolVars, resources, op, verbs, perIteration, units, next, uState, uKey,
                   mutex, ret, retApiWarnings, wpErr, wpStopped>>

FanCancel == fpc = "loop" /\ Cancel /\ UNCHANGED <<fanVars, extVars>>

FanNext ==
    \/ \E refs \in RefSeqs : BeginGetObjectsByRefs(refs)
    \/ \E vs \in VerbArgs, own \in BOOLEAN : BeginListAllObjects(vs, own)
    \/ Submit
    \/ \E u \in Threads : StartUnit(u)
    \/ \E u \in Threads : DropUnit(u)
    \/ \E u \in Threads : UnitCheckout(u)
    \/ \E u \in Threads : UnitCtxDone(u)
    \/ \E u \in Threads : UnitWarning(u)
    \/ \E u \in Threads : UnitCallback(u)
    \/ \E u \in Threads : ListUnitFail(u)
    \/ \E u \in Threads : UnitLock(u)
    \/ \E u \in Threads : UnitMerge(u)
    \/ StopWait
    \/ FanCancel
    \/ UpdateResources

SpecFanout == Init /\ [][FanNext]_vars

(***************************************************************************)
(* Concurrent callers of withClientFromPool, each calling again and again  *)
(* with a callback that makes requests and then returns nil, returns an    *)
(* error or panics.                                                        *)
(***************************************************************************)
Call(t) ==
    /\ pc[t] \in {"idle", "done", "panicked"}
    /\ EnterSelect(t)
    /\ UNCHANGED <<fanVars, extVars>>

CallerCheckout(t) == Checkout(t) /\ UNCHANGED <<fanVars, extVars>>

CallerCtxDone(t) == SelectCtxDone(t) /\ UNCHANGED <<fanVars, extVars>>

CallerWarning(t) == HandleWarningHeader(t) /\ UNCHANGED <<fanVars, extVars>>

CallerCallback(t) == (\E e \in CbResults : CallbackReturn(t, e)) /\ UNCHANGED <<fanVars, extVars>>

CallerCancel == Cancel /\ UNCHANGED <<fanVars, extVars>>

Next ==
    \/ \E t \in Threads : Call(t)
    \/ \E t \in Threads : CallerCheckout(t)
    \/ \E t \in Threads : CallerCtxDone(t)
    \/ \E t \in Threads : CallerWarning(t)
    \/ \E t \in Threads : CallerCallback(t)
    \/ CallerCancel

PoolSpecInit == Init /\ resources = Kinds

Spec == PoolSpecInit /\ [][Next]_vars

(***************************************************************************)
(* Scheduling.  A goroutine blocked in the select is woken when the        *)
(* context is cancelled (weak fairness of the ctx.Done case); the Go       *)
(* runtime queues blocked receivers of a channel first-in first-out, so a  *)
(* receiver that keeps finding the channel refilled is eventually handed   *)
(* an entry (strong fairness of the receive); a callback that was started  *)
(* ends.  Server warnings play no part in who gets an entry and are left   *)
(* out of the liveness specification.                                      *)
(***************************************************************************)
Fairness ==
    \A t \in Threads :
        /\ SF_vars(CallerCheckout(t))
        /\ WF_vars(CallerCtxDone(t))
        /\ WF_vars(CallerCallback(t))

LiveNext ==
    \/ \E t \in Threads : Call(t)
    \/ \E t \in Threads : CallerCheckout(t)
    \/ \E t \in Threads : CallerCtxDone(t)
    \/ \E t \in Threads : CallerCallback(t)
    \/ CallerCancel

LiveSpec == PoolSpecInit /\ [][LiveNext]_vars /\ Fairness

(***************************************************************************)
(* Claims about the client pool.                                           *)
(***************************************************************************)
Holders == {t \in Threads : held[t] # NoEntry}

Executing == {t \in Threads : pc[t] = "cb"}

Range(q) == {q[i] : i \in 1..Len(q)}

\* C1: at most parallelClients callbacks execute against the pool at any
\* time, each on an entry of its own, and the idle entries plus the
\* checked-out entries never number more than parallelClients.
C1_PoolBound ==
    /\ Cardinality(Executing) <= parallelClients
    /\ Len(clientPool) + Cardinality(Holders) <= parallelClients
    /\ \A t \in Executing : held[t] \in Entries
    /\ \A t, u \in Executing : held[t] = held[u] => t = u

C1_Witness ==
    /\ Cardinality(Executing) = parallelClients
    /\ clientPool = <<>>
    /\ \E t \in Threads : pc[t] = "select"

\* C2: under fairness, when the context is never cancelled (and every
\* callback ends), every caller waiting in the select of withClientFromPool
\* is eventually given an entry and runs its callback.
C2_BlockedCallerServed ==
    ([]~ctxDone) => \A t \in Threads : (pc[t] = "select") ~> (pc[t] = "cb")

C2_Witness ==
    /\ ~ctxDone
    /\ clientPool = <<>>
    /\ \E t \in Threads : pc[t] = "select"
    /\ \E t \in Threads : pc[t] = "cb" /\ held[t] \in Entries

\* C3: an entry is held only while its call runs; once a call has ended,
\* with nil, with an error or by a panic, its entry is back in the pool, and
\* when no call is running the pool holds exactly the parallelClients
\* entries.
C3_EntryReturned ==
    /\ \A t \in Threads : pc[t] \in {"idle", "select", "done", "panicked"} => held[t] = NoEntry
    /\ (\A t \in Threads : pc[t] \in {"idle", "done", "panicked"})
          => /\ Len(clientPool) = parallelClients
             /\ Range(clientPool) = Entries

C3_Witness ==
    /\ \A t \in Threads : pc[t] \in {"done", "panicked"}
    /\ \E t \in Threads : pc[t] = "panicked"
    /\ \E t \in Threads : pc[t] = "done" /\ retErr[t] = "error"
    /\ \E t \in Threads : pc[t] = "done" /\ retErr[t] = ErrNil
    /\ Len(clientPool) = parallelClients

C5_CancelledWait ==
    /\ [][\A t \in Threads :
            (pc[t] = "select" /\ pc'[t] \notin {"select", "cb"})
               => /\ ctxDone
                  /\ pc'[t] = "done"
                  /\ retErr'[t] = ErrWaitClient
                  /\ retWarnings'[t] = <<>>
                  /\ raised'[t] = <<>>
                  /\ clientPool' = clientPool
                  /\ warnings' = warnings
                  /\ held' = held]_vars
    /\ \A t \in Threads :
          (ctxDone /\ pc[t] = "select" /\ clientPool = <<>>) ~> (pc[t] # "select")

C5_Witness ==
    /\ ctxDone
    /\ clientPool = <<>>
    /\ \E t \in Threads : pc[t] = "done" /\ retErr[t] = ErrWaitClient

(***************************************************************************)
(* Claims about the fan-out operations.                                     *)
(***************************************************************************)
Finished == {u \in Units : uState[u] = "finished"}

\* The units whose list/get call returned the error e.
UnitsWith(e) == {u \in Finished : retErr[u] = e}

\* An error that is neither not-found nor no-match.
IsHard(e) == e # ErrNil /\ ~IsNotFound(e) /\ ~IsNoMatchError(e)

AllRan == fpc = "returned" /\ Finished = Units

\* The objects returned are those of the units whose call succeeded.
ObjsOfSucceeded ==
    /\ Range(out.objs) = {Obj(uKey[u]) : u \in UnitsWith(ErrNil)}
    /\ Len(out.objs) = Cardinality(UnitsWith(ErrNil))

OneNotFound ==
    /\ AllRan
    /\ op = "GetObjectsByRefs"
    /\ Cardinality(UnitsWith(ErrNotFound)) = 1
    /\ UnitsWith(ErrNil) \cup UnitsWith(ErrNotFound) = Units

\* C6 as stated: when exactly one ref's get returns not-found and the others
\* succeed, GetObjectsByRefs returns the other refs' objects and a nil
\* error, and the not-found ref is in neither the objects nor the warnings
\* map, also when the not-found response carried warnings.
C6_NotFoundRefAbsent ==
    OneNotFound =>
        /\ out.err = ErrNil
        /\ ObjsOfSucceeded
        /\ \A u \in UnitsWith(ErrNotFound) :
              /\ Obj(units[u]) \notin Range(out.objs)
              /\ units[u] \notin DOMAIN out.warnings

\* C6 as amended: the not-found ref is absent from the objects; it is a key
\* of the warnings map exactly when its not-found response carried warnings,
\* and then it maps to them.
C6_NotFoundRefWarningsKept ==
    OneNotFound =>
        /\ out.err = ErrNil
        /\ ObjsOfSucceeded
        /\ \A u \in UnitsWith(ErrNotFound) :
              /\ Obj(units[u]) \notin Range(out.objs)
              /\ units[u] \in DOMAIN out.warnings <=> raised[u] # <<>>
              /\ raised[u] # <<>> => out.warnings[units[u]] = raised[u]

C6_Witness ==
    /\ OneNotFound
    /\ Len(units) = Cardinality(Refs)
    /\ \E u \in UnitsWith(ErrNotFound) : units[u] \in DOMAIN out.warnings
    /\ Len(out.objs) = Len(units) - 1

\* C7: when the get of some ref failed with an error that is neither
\* not-found nor no-match, GetObjectsByRefs returns a non-nil error, the
\* error of such a get.
C7_HardErrorReturned ==
    (fpc = "returned" /\ op = "GetObjectsByRefs" /\ \E u \in Finished : IsHard(retErr[u]))
        => /\ out.err # ErrNil
           /\ out.err \in {retErr[u] : u \in {w \in Finished : IsHard(retErr[w])}}

C7_Witness ==
    /\ AllRan
    /\ op = "GetObjectsByRefs"
    /\ Len(units) = Cardinality(Refs)
    /\ Cardinality(UnitsWith(ErrOther)) = 1
    /\ Cardinality(UnitsWith(ErrNil)) = Len(units) - 1
    /\ out.err = ErrOther

\* C8: a fan-out call one of whose units failed with a non-tolerated error
\* returns an error and a nil object list; no object list comes with an
\* error.
C8_NoPartialResult ==
    fpc = "returned" =>
        /\ (\E u \in Finished : IsHard(retErr[u])) => out.err # ErrNil
        /\ out.err # ErrNil => out.objs = <<>>

C8_Witness ==
    /\ fpc = "returned"
    /\ op = "ListAllObjects"
    /\ out.err # ErrNil
    /\ out.objs = <<>>
    /\ ret # <<>>

\* C9: in both fan-out operations, when every unit ran and the
\* only errors were not-found and no-match, the call returns a nil error
\* and the results of the other units.
C9_AbsenceTolerated ==
    (AllRan /\ \A u \in Units : ~IsHard(retErr[u]))
        => out.err = ErrNil /\ ObjsOfSucceeded

\* C10: ListAllObjects submits and lists only kinds whose verbs contain at
\* least one of the requested verbs; with verbs ["list"] the kind without
\* the list verb is never submitted, and with no verbs nothing is.
C10_OnlyKindsWithVerb ==
    op = "ListAllObjects" =>
        /\ \A i \in Units : Range(APIVerbs[units[i]]) \cap Range(verbs) # {}
        /\ verbs = <<>> => units = <<>>
        /\ \A t \in Threads :
              uState[t] # "none" => t \in Units /\ t <= next
        /\ \A u \in Units :
              uState[u] \in {"running", "locked", "finished"}
                 => Range(APIVerbs[uKey[u]]) \cap Range(verbs) # {}

C10_Witness ==
    /\ op = "ListAllObjects"
    /\ verbs = <<"list">>
    /\ units = <<GVK("ConfigMap"), GVK("Widget")>>
    /\ AllRan
    /\ out.err = ErrNil
    /\ Len(out.objs) = Len(units)

(***************************************************************************)
(* Unstructured objects (pkg/utils/uo) as trees, and JSON paths as the      *)
(* sequences of lexemes of their text.                                      *)
(***************************************************************************)
Str(s) == [t |-> "str", v |-> s]

Num(n) == [t |-> "num", v |-> n]

Map(f) == [t |-> "map", v |-> f]

List(q) == [t |-> "list", v |-> q]

\* The panic of NewMyJsonPathMust, in place of the object being fixed.
Panic == [t |-> "panic"]

NotFound == [t |-> "notfound"]

\* The lexemes of "[0]", "[1]", ...: fmt.Sprintf("%s[%d]", p, i) appends IndexLexemes[i + 1].
IndexLexemes == <<"[0]", "[1]", "[2]">>

IndexOf(lx) == (CHOOSE i \in 1..Len(IndexLexemes) : IndexLexemes[i] = lx) - 1

IsIndex(lx) == \E i \in 1..Len(IndexLexemes) : IndexLexemes[i] = lx

IsName(lx) == lx # "." /\ ~IsIndex(lx)

\* A path is well formed when it is a name followed by ".name" and "[i]" parts.
RECURSIVE WellFormedFrom(_, _)
WellFormedFrom(p, i) ==
    IF i > Len(p) THEN TRUE
    ELSE IF IsIndex(p[i]) THEN WellFormedFrom(p, i + 1)
    ELSE IF p[i] = "." /\ i < Len(p) /\ IsName(p[i + 1]) THEN WellFormedFrom(p, i + 2)
    ELSE FALSE

WellFormed(p) == p # <<>> /\ IsName(p[1]) /\ WellFormedFrom(p, 2)

\* uo.NewMyJsonPathMust: the steps of a well-formed path, its names and indexes.
NewMyJsonPathMust(p) == SelectSeq(p, LAMBDA lx : lx # ".")

\* The value at the steps of a path, or NotFound.
RECURSIVE GetFirst(_, _)
GetFirst(tree, steps) ==
    IF steps = <<>> THEN tree
    ELSE IF IsIndex(steps[1])
      THEN IF tree.t = "list" /\ IndexOf(steps[1]) < Len(tree.v)
             THEN GetFirst(tree.v[IndexOf(steps[1]) + 1], Tail(steps))
             ELSE NotFound
      ELSE IF tree.t = "map" /\ steps[1] \in DOMAIN tree.v
             THEN GetFirst(tree.v[steps[1]], Tail(steps))
             ELSE NotFound

\* MyJsonPath.GetFirstListOfMaps: found when the value is a list of maps.
GetFirstListOfMaps(tree, steps) ==
    LET x == GetFirst(tree, steps)
    IN IF x.t = "list" /\ \A i \in 1..Len(x.v) : x.v[i].t = "map" THEN x ELSE NotFound

\* MyJsonPath.GetFirstMap: found when the value is a map.
GetFirstMap(tree, steps) ==
    LET x == GetFirst(tree, steps)
    IN IF x.t = "map" THEN x ELSE NotFound

\* The tree after the value at the steps of a path, which is there, has
\* become x: what writing through the map or slice the getters return does.
RECURSIVE SetAt(_, _, _)
SetAt(tree, steps, x) ==
    IF steps = <<>> THEN x
    ELSE IF IsIndex(steps[1])
      THEN List([tree.v EXCEPT ![IndexOf(steps[1]) + 1] = SetAt(@, Tail(steps), x)])
      ELSE Map([tree.v EXCEPT ![steps[1]] = SetAt(@, Tail(steps), x)])

\* fmt.Sprintf("%v", v) for the numbers considered.
Sprintf(v) == IF v.t = "num" THEN Str(<<"0", "1", "2">>[v.v + 1]) ELSE Str("?")

\* UnstructuredObject.Clone: a deep copy.
Clone(tree) == tree

(***************************************************************************)
(* FixObjectForPatch.  Its closures work on the clone o; here each takes    *)
(* the clone's tree and gives the tree it leaves, or Panic.                 *)
(***************************************************************************)
needsDefaultsFix == ServerVersion < v1_21 \/ TRUE

\* Mutant of needsTypeConversionFix: the type fix is applied on every server.
needsTypeConversionFixAlways == TRUE

\* needsTypeConversionFix := k.ServerVersion.LessThan(v1_1000)
needsTypeConversionFix == ServerVersion < v1_1000

\* What a closure does with a path NewMyJsonPathMust does not accept.
Malformed(o) == IF mustPanics THEN Panic ELSE o

\* Mutant of fixPort: the protocol is set on every port.
fixPortAlways(port) == Map([k \in DOMAIN port.v \cup {"protocol"} |-> IF k = "protocol" THEN Str("TCP") ELSE port.v[k]])

\* if _, ok := port["protocol"]; !ok { port["protocol"] = "TCP" }
fixPort(port) ==
    IF "protocol" \in DOMAIN port.v
      THEN port
      ELSE Map([k \in DOMAIN port.v \cup {"protocol"} |-> IF k = "protocol" THEN Str("TCP") ELSE port.v[k]])

fixPorts(o, p) ==
    IF o.t = "panic" \/ ~needsDefaultsFix THEN o
    ELSE IF ~WellFormed(p) THEN Malformed(o)
    ELSE LET ports == GetFirstListOfMaps(o, NewMyJsonPathMust(p))
         IN IF ports.t = "notfound" THEN o
            ELSE SetAt(o, NewMyJsonPathMust(p), List([i \in 1..Len(ports.v) |-> fixPort(ports.v[i])]))

\* _, ok = v.(string); if !ok { d[k] = fmt.Sprintf("%v", v) }: the value d[k] is left with.
fixValue(v) == IF v.t = "str" THEN v ELSE Sprintf(v)

fixStringType(o, p, k) ==
    IF o.t = "panic" \/ ~needsTypeConversionFix THEN o
    ELSE IF ~WellFormed(p) THEN Malformed(o)
    ELSE LET d == GetFirstMap(o, NewMyJsonPathMust(p))
         IN IF d.t = "notfound" THEN o
            ELSE IF k \notin DOMAIN d.v THEN o
            ELSE SetAt(o, NewMyJsonPathMust(p), Map([d.v EXCEPT ![k] = fixValue(@)]))

fixContainer(o, p) ==
    fixStringType(
        fixStringType(
            fixPorts(o, p \o <<".", "ports">>),
            p \o <<"resources", ".", "limits">>, "cpu"),
        p \o <<"resources", ".", "requests">>, "cpu")

\* for i, _ := range containers { fixContainer(fmt.Sprintf("%s[%d]", p, i)) }, from index i on.
RECURSIVE fixContainersFrom(_, _, _, _)
fixContainersFrom(o, p, i, n) ==
    IF i >= n THEN o
    ELSE fixContainersFrom(fixContainer(o, p \o <<IndexLexemes[i + 1]>>), p, i + 1, n)

fixContainers(o, p) ==
    IF o.t = "panic" THEN o
    ELSE LET containers == GetFirstListOfMaps(o, NewMyJsonPathMust(p))
         IN IF containers.t = "notfound" THEN o
            ELSE fixContainersFrom(o, p, 0, Len(containers.v))

\* for i, _ := range limits { fixStringType(...default...); fixStringType(...defaultRequest...) }
RECURSIVE fixLimitsFrom(_, _, _, _)
fixLimitsFrom(o, p, i, n) ==
    IF i >= n THEN o
    ELSE fixLimitsFrom(
            fixStringType(
                fixStringType(o, p \o <<IndexLexemes[i + 1], ".", "default">>, "cpu"),
                p \o <<IndexLexemes[i + 1], ".", "defaultRequest">>, "cpu"),
            p, i + 1, n)

fixLimits(o, p) ==
    IF o.t = "panic" THEN o
    ELSE LET limits == GetFirstListOfMaps(o, NewMyJsonPathMust(p))
         IN IF limits.t = "notfound" THEN o
            ELSE fixLimitsFrom(o, p, 0, Len(limits.v))

ContainersPath == <<"spec", ".", "template", ".", "spec", ".", "containers">>

PortsPath == <<"spec", ".", "ports">>

LimitsPath == <<"spec", ".", "limits">>

\* fixContainers("spec.template.spec.containers"); fixPorts("spec.ports"); fixLimits("spec.limits")
FixAll(o) == fixLimits(fixPorts(fixContainers(o, ContainersPath), PortsPath), LimitsPath)

(***************************************************************************)
(* The objects FixObjectForPatch is applied to.                             *)
(***************************************************************************)
Absent == [t |-> "absent"]

\* The map of the fields of f that are not Absent.
Fields(f) == Map([k \in {x \in DOMAIN f : f[x].t # "absent"} |-> f[k]])

Protocols == {Absent, Str("UDP")}

Port(proto) == Fields([port |-> Num(1), protocol |-> proto])

PortLists ==
    {Absent, Str("none"), List(<<>>)}
        \cup {List(<<Port(a)>>) : a \in Protocols}
        \cup {List(<<Port(a), Port(b)>>) : a, b \in Protocols}

CpuValues == {Absent, Num(1), Str("500m")}

\* A map with a cpu entry (when there is one) and a memory entry.
Quantities(cpu) == Fields([cpu |-> cpu, memory |-> Str("1Gi")])

QuantityMaps == {Absent} \cup {Quantities(c) : c \in CpuValues}

Resources(lim, req) ==
    IF lim.t = "absent" /\ req.t = "absent" THEN Absent
    ELSE Fields([limits |-> lim, requests |-> req])

Container(ports, lim, req) ==
    Fields([name |-> Str("c"), ports |-> ports, resources |-> Resources(lim, req)])

Containers ==
    {Container(ports, Quantities(lim), req) :
        ports \in {Absent, List(<<Port(Absent)>>), List(<<Port(Str("UDP")), Port(Absent)>>)},
        lim \in CpuValues,
        req \in {Absent, Quantities(Num(2))}}

ContainerLists ==
    {Absent, List(<<>>)}
        \cup {List(<<c>>) : c \in Containers}
        \cup {List(<<c, Container(List(<<Port(Absent)>>), Quantities(Num(0)), Absent)>>) : c \in Containers}

LimitItem(def, defReq) == Fields([type |-> Str("Container"), default |-> def, defaultRequest |-> defReq])

LimitLists ==
    {Absent, List(<<>>)}
        \cup {List(<<LimitItem(d, r)>>) : d \in QuantityMaps, r \in {Absent, Quantities(Num(2))}}
        \cup {List(<<LimitItem(Quantities(Str("500m")), Absent), LimitItem(Quantities(Num(1)), Absent)>>)}

Object(containers, ports, limits) ==
    Fields([kind |-> Str("Kind"),
            spec |-> Fields([ports |-> ports,
                             limits |-> limits,
                             template |-> IF containers.t = "absent" THEN Absent
                                          ELSE Fields([spec |-> Fields([containers |-> containers])])])])

Objects == {Object(c, p, l) : c \in ContainerLists, p \in PortLists, l \in LimitLists}

\* Mutant of CloneTarget: the closures write through the caller's pointer.
NoCloneTarget == "o"

\* o = o.Clone(): the pointer the closures of FixObjectForPatch write through.
CloneTarget == "clone"

\* FixObjectForPatch(o), for the object the pointer "o" points to.  After a
\* panic the clone is garbage no one can reach.
FixObjectForPatch ==
    /\ fixpc = "idle"
    /\ heap["o"].t = "map"
    /\ fixArg' = heap["o"]
    /\ IF ~needsDefaultsFix /\ ~needsTypeConversionFix
         THEN /\ fixpc' = "returned"
              /\ fixRet' = "o"
              /\ UNCHANGED heap
         ELSE IF FixAll(Clone(heap["o"])).t = "panic"
           THEN /\ fixpc' = "panicked"
                /\ fixRet' = NilPtr
                /\ heap' = [heap EXCEPT ![CloneTarget] = NoTree]
           ELSE /\ fixpc' = "returned"
                /\ fixRet' = CloneTarget
                /\ heap' = [heap EXCEPT ![CloneTarget] = FixAll(Clone(heap["o"]))]
    /\ UNCHANGED <<ServerVersion, mustPanics>>
    /\ UNCHANGED <<poolVars, fanVars, writeVars, initVars, resVars, proxyVars>>

FixInit ==
    /\ ServerVersion \in ServerVersions
    /\ mustPanics \in BOOLEAN
    /\ heap \in {[p \in Ptrs |-> IF p = "o" THEN x ELSE NoTree] : x \in Objects}
    /\ fixpc = "idle"
    /\ fixArg = NoTree
    /\ fixRet = NilPtr

FixNext == FixObjectForPatch

\* A constructed handle with nothing else in flight, the server version and
\* the argument of FixObjectForPatch chosen.
FixSpecInit ==
    PoolInit /\ FanInit /\ resources = Kinds /\ FixInit /\ WriteIdle /\ ReinitIdle
        /\ ResolverIdle /\ ProxyIdle

SpecFix == FixSpecInit /\ [][FixNext]_vars

(***************************************************************************)
(* Claims about FixObjectForPatch.                                          *)
(***************************************************************************)
FixIn == fixArg

FixOut == heap[fixRet]

ContainersSteps == <<"spec", "template", "spec", "containers">>

\* The number of elements of the list at the steps, 0 when there is none.
CountAt(tree, steps) ==
    IF GetFirst(tree, steps).t = "list" THEN Len(GetFirst(tree, steps).v) ELSE 0

\* Where the port lists of an object are.
PortListSteps(tree) ==
    {<<"spec", "ports">>}
        \cup {ContainersSteps \o <<IndexLexemes[i], "ports">> : i \in 1..CountAt(tree, ContainersSteps)}

\* Where the maps with the cpu values of an object are.
CpuMapSteps(tree) ==
    {ContainersSteps \o <<IndexLexemes[i], "resources", k>> :
        i \in 1..CountAt(tree, ContainersSteps), k \in {"limits", "requests"}}
        \cup {<<"spec", "limits", IndexLexemes[i], k>> :
                i \in 1..CountAt(tree, <<"spec", "limits">>), k \in {"default", "defaultRequest"}}

\* The port entries of the input, as pairs of the list's steps and the index.
PortEntries(tree) ==
    {<<s, j>> : s \in PortListSteps(tree), j \in 1..Len(IndexLexemes)} \cap
    {e \in PortListSteps(tree) \X (1..Len(IndexLexemes)) :
        /\ GetFirstListOfMaps(tree, e[1]).t = "list"
        /\ e[2] <= Len(GetFirst(tree, e[1]).v)}

PortAt(tree, e) == GetFirst(tree, e[1]).v[e[2]]

\* Every port entry that lacked a protocol has protocol TCP, and every
\* other one is as it was.
PortsDefaulted(in, res) ==
    \A e \in PortEntries(in) :
        /\ GetFirst(res, e[1]).t = "list"
        /\ Len(GetFirst(res, e[1]).v) = Len(GetFirst(in, e[1]).v)
        /\ IF "protocol" \in DOMAIN PortAt(in, e).v
             THEN PortAt(res, e) = PortAt(in, e)
             ELSE /\ DOMAIN PortAt(res, e).v = DOMAIN PortAt(in, e).v \cup {"protocol"}
                  /\ PortAt(res, e).v["protocol"] = Str("TCP")
                  /\ \A k \in DOMAIN PortAt(in, e).v : PortAt(res, e).v[k] = PortAt(in, e).v[k]

\* The tree with the values at the given places, where there are any, blanked.
RECURSIVE Blank(_, _)
Blank(tree, places) ==
    IF places = {} THEN tree
    ELSE LET s == CHOOSE x \in places : TRUE
         IN Blank(IF GetFirst(tree, s).t = "notfound" THEN tree ELSE SetAt(tree, s, Str("_")),
                  places \ {s})

CpuPlaces(tree) == {s \o <<"cpu">> : s \in CpuMapSteps(tree)}

\* The tree with protocol TCP in the port entries given.
RECURSIVE WithTCP(_, _)
WithTCP(tree, entries) ==
    IF entries = {} THEN tree
    ELSE LET e == CHOOSE x \in entries : TRUE
             port == PortAt(tree, e).v
         IN WithTCP(SetAt(tree, e[1] \o <<IndexLexemes[e[2]]>>,
                          Map([k \in DOMAIN port \cup {"protocol"} |->
                                  IF k = "protocol" THEN Str("TCP") ELSE port[k]])),
                    entries \ {e})

\* The input with protocol TCP in every port entry that lacked a protocol.
Defaulted(in) ==
    WithTCP(in, {e \in PortEntries(in) : "protocol" \notin DOMAIN PortAt(in, e).v})

\* C17 as stated: after FixObjectForPatch every port entry under the
\* containers and under spec.ports that lacked a protocol has protocol TCP,
\* every port entry that had one is as it was, and nothing else differs
\* from the input.
C17_OnlyProtocolsAdded ==
    fixpc = "returned" =>
        /\ PortsDefaulted(FixIn, FixOut)
        /\ FixOut = Defaulted(FixIn)

\* C17 as amended: the port entries are as stated, and nothing else differs
\* from the input but the cpu values of the places the type fix covers.
C17_ProtocolsAddedCpuApart ==
    fixpc = "returned" =>
        /\ PortsDefaulted(FixIn, FixOut)
        /\ Blank(FixOut, CpuPlaces(FixIn)) = Blank(Defaulted(FixIn), CpuPlaces(FixIn))

C17_Witness ==
    /\ fixpc = "returned"
    /\ CountAt(FixIn, ContainersSteps) > 1
    /\ \E e \in PortEntries(FixIn) :
          /\ e[1] # <<"spec", "ports">>
          /\ "protocol" \notin DOMAIN PortAt(FixIn, e).v
          /\ PortAt(FixOut, e).v["protocol"] = Str("TCP")
    /\ \E e \in PortEntries(FixIn) :
          /\ e[1] = <<"spec", "ports">>
          /\ "protocol" \notin DOMAIN PortAt(FixIn, e).v
    /\ \E e \in PortEntries(FixIn) :
          /\ "protocol" \in DOMAIN PortAt(FixIn, e).v
          /\ PortAt(FixOut, e).v["protocol"] = Str("UDP")
    /\ FixOut # Defaulted(FixIn)

\* The cpu values of the input: the places of CpuPlaces that hold a value.
CpuEntries(tree) == {s \in CpuPlaces(tree) : GetFirst(tree, s).t \in {"str", "num"}}

\* C18: after FixObjectForPatch on a server that needs the type fix, every
\* cpu value under a container's resources.limits and resources.requests
\* and under spec.limits[*].default and defaultRequest that was not a string
\* is its string form, and every one that was a string is unchanged.
C18_CpuValuesAreStrings ==
    (fixpc = "returned" /\ ServerVersion < v1_1000) =>
        \A s \in CpuEntries(FixIn) :
            IF GetFirst(FixIn, s).t = "str"
              THEN GetFirst(FixOut, s) = GetFirst(FixIn, s)
              ELSE GetFirst(FixOut, s) = Sprintf(GetFirst(FixIn, s))

\* C19: FixObjectForPatch leaves the object passed to it as it was, whether
\* it returns or panics.
C19_InputUnmodified ==
    fixpc # "idle" => heap["o"] = fixArg

C19_Witness ==
    /\ fixpc = "returned"
    /\ fixRet = "clone"
    /\ heap["clone"] # fixArg
    /\ heap["o"] = fixArg
    /\ \E e \in PortEntries(fixArg) : "protocol" \notin DOMAIN PortAt(fixArg, e).v
    /\ \E s \in CpuEntries(fixArg) : GetFirst(fixArg, s).t = "num" /\ GetFirst(heap["clone"], s).t = "str"

\* C29: each fixup of FixObjectForPatch is gated by the server version, so
\* on a server at or above every version threshold FixObjectForPatch returns
\* the object unmodified.
C29_UnmodifiedWhenFixed ==
    (fixpc # "idle" /\ ServerVersion >= v1_21 /\ ServerVersion >= v1_1000) =>
        /\ fixpc = "returned"
        /\ FixOut = FixIn

\* The cpu values under spec.limits[*].default and defaultRequest.
LimitsCpuEntries(tree) == {s \in CpuEntries(tree) : s[1] = "spec" /\ s[2] = "limits"}

\* C30: the port-protocol defaults fixup is applied on every server version,
\* and the cpu string coercion exactly on the server versions below 1.1000:
\* whatever the version, the result has the port protocols defaulted; at
\* 1.1000 and above FixObjectForPatch returns with every cpu value as it
\* was; below 1.1000 it returns with every cpu value under spec.limits a string.
C30_GatesAsCoded ==
    /\ fixpc = "returned" => PortsDefaulted(FixIn, FixOut)
    /\ (fixpc # "idle" /\ ServerVersion >= v1_1000) =>
        /\ fixpc = "returned"
        /\ \A s \in CpuEntries(FixIn) : GetFirst(FixOut, s) = GetFirst(FixIn, s)
    /\ (fixpc = "returned" /\ ServerVersion < v1_1000) =>
        \A s \in LimitsCpuEntries(FixIn) :
            GetFirst(FixOut, s) = fixValue(GetFirst(FixIn, s))

\* On a server of version 1.1000 a port got its protocol and a cpu number
\* under spec.limits stayed a number.
C30_Witness ==
    /\ fixpc = "returned"
    /\ ServerVersion >= v1_1000
    /\ \E e \in PortEntries(FixIn) :
          /\ "protocol" \notin DOMAIN PortAt(FixIn, e).v
          /\ PortAt(FixOut, e).v["protocol"] = Str("TCP")
    /\ \E s \in LimitsCpuEntries(FixIn) :
          /\ GetFirst(FixIn, s).t = "num"
          /\ GetFirst(FixOut, s).t = "num"

(***************************************************************************)
(* The write calls: PatchObject, UpdateObject and DeleteSingleObject, made  *)
(* one at a time by the goroutine Writer on the handle or on its clone.     *)
(***************************************************************************)
Writer == CHOOSE t \in Threads : \A u \in Threads : t <= u

\* The error of a request made with a cancelled context.
ErrCtx == "context canceled"

\* fmt.Errorf("failed waiting for deletion of %s: %w", ref.String(), k.ctx.Err())
ErrWaitDeletion == "failed waiting for deletion: ctx.Err"

\* fmt.Errorf("failed to patch %s: %w", ref.String(), err)
PatchError(e) ==
    IF e = ErrCtx THEN "failed to patch: context canceled" ELSE "failed to patch: Other"

\* Mutant of ReadWrite: the clone keeps the dry-run flag.
ReadWriteKeep(k) == k

\* k2 := *k; k2.DryRun = false; return &k2
ReadWrite(k) == [k EXCEPT !.DryRun = FALSE]

\* dryRun := k.DryRun || options.ForceDryRun
EffectiveDryRun(k, ForceDryRun) == k.DryRun \/ ForceDryRun

\* The directive of a request's options: o.DryRun = []string{"All"} when dryRun.
Directive(dryRun) == IF dryRun THEN <<"All">> ELSE <<>>

\* yaml.WriteYamlBytes(o), o.ToUnstructured(): the document of the object.
Yaml(tree) == [doc |-> tree]

\* Mutant of PatchBody: the patch is made of the object after normalization.
PatchBodyNormalized(tree) == Yaml(FixAll(tree))

\* data, err := yaml.WriteYamlBytes(o): the body of PatchObject's request.
PatchBody(tree) == Yaml(tree)

\* Mutant of Waits: a dry-run delete is waited for as well.
WaitsUnlessNoWait(dryRun, NoWait) == ~NoWait

\* if !dryRun && !options.NoWait: DeleteSingleObject calls waitForDeletedObject.
Waits(dryRun, NoWait) == ~dryRun /\ ~NoWait

\* The calls the Writer can make now.
Calls ==
    {[op |-> "PatchObject", h |-> h, ForceDryRun |-> f, ForceApply |-> a,
      NoWait |-> FALSE, IgnoreNotFoundError |-> FALSE, o |-> p] :
        h \in {x \in Handles : handles[x] # NoHandle}, f \in BOOLEAN, a \in BOOLEAN,
        p \in {"o"} \cup (IF fixpc = "returned" THEN {fixRet} ELSE {})}
    \cup
    {[op |-> "UpdateObject", h |-> h, ForceDryRun |-> f, ForceApply |-> FALSE,
      NoWait |-> FALSE, IgnoreNotFoundError |-> FALSE, o |-> p] :
        h \in {x \in Handles : handles[x] # NoHandle}, f \in BOOLEAN,
        p \in {"o"} \cup (IF fixpc = "returned" THEN {fixRet} ELSE {})}
    \cup
    {[op |-> "DeleteSingleObject", h |-> h, ForceDryRun |-> f, ForceApply |-> FALSE,
      NoWait |-> n, IgnoreNotFoundError |-> i, o |-> "o"] :
        h \in {x \in Handles : handles[x] # NoHandle}, f \in BOOLEAN, n \in BOOLEAN, i \in BOOLEAN}

\* The kind of the object written.
WriteGVK == GVK("ConfigMap")

\* Mutant of Response: the context of the request is not the handle's.
ResponseWithoutCtx(verb) ==
    IF verb \in {"delete", "get"} /\ ~exists THEN {ErrNotFound} ELSE {ErrNil, ErrOther}

\* The errors a request to the server can end with: r.Patch, r.Update,
\* r.Delete and r.Get with k.ctx.
Response(verb) ==
    IF ctxDone THEN {ErrCtx}
    ELSE IF verb \in {"delete", "get"} /\ ~exists THEN {ErrNotFound}
    ELSE {ErrNil, ErrOther}

VerbOf(c) ==
    IF c.op = "PatchObject" THEN "patch"
    ELSE IF c.op = "UpdateObject" THEN "update" ELSE "delete"

\* The request a write call makes.
Request(c) ==
    [verb |-> VerbOf(c),
     DryRun |-> Directive(EffectiveDryRun(handles[c.h], c.ForceDryRun)),
     Force |-> c.ForceApply,
     FieldManager |-> IF c.op = "DeleteSingleObject" THEN "" ELSE "kluctl",
     body |-> IF c.op = "PatchObject" THEN PatchBody(heap[c.o])
              ELSE IF c.op = "UpdateObject" THEN Yaml(heap[c.o])
              ELSE Yaml(NoTree)]

\* Mutant of WriteCbError: a delete ignores not-found whatever its options.
WriteCbErrorIgnoring(c, e) ==
    IF e = ErrNil THEN ErrNil
    ELSE IF c.op = "PatchObject" THEN PatchError(e)
    ELSE IF c.op = "DeleteSingleObject" /\ IsNotFound(e) THEN ErrNil
    ELSE e

\* What the callback of a write call returns for the error e of its request.
WriteCbError(c, e) ==
    IF e = ErrNil THEN ErrNil
    ELSE IF c.op = "PatchObject" THEN PatchError(e)
    ELSE IF c.op = "DeleteSingleObject" /\ c.IgnoreNotFoundError /\ IsNotFound(e) THEN ErrNil
    ELSE e

\* return apiWarnings, err (return result, apiWarnings, err)
Returns(ws, e) == wpc' = "returned" /\ wErr' = e /\ wWarnings' = ws

\* The Writer calls PatchObject, UpdateObject or DeleteSingleObject, which
\* builds the request's options and enters withClientFromPool through
\* withDynamicClientForGVK.
WriteCall(c) ==
    /\ wpc = "idle"
    /\ wcall' = c
    /\ wpc' = "request"
    /\ EnterSelect(Writer)
    /\ UNCHANGED <<handles, dryRunArg, sent, polls, lastPoll, exists, cancelEarly, wErr, reqErr, apiWarnings, wWarnings>>
    /\ UNCHANGED <<fanVars, fixVars, initVars, resVars, proxyVars>>

WriteCheckout ==
    /\ wpc \in {"request", "poll"}
    /\ Checkout(Writer)
    /\ UNCHANGED <<fanVars, extVars>>

WriteCtxDone ==
    /\ wpc \in {"request", "poll"}
    /\ SelectCtxDone(Writer)
    /\ UNCHANGED <<fanVars, extVars>>

\* The callback of the write call: it resolves the kind, makes the request
\* and returns.
WriteRequest ==
    /\ wpc = "request"
    /\ pc[Writer] = "cb"
    /\ IF GetGVRForGVK(WriteGVK) # ErrNil
         THEN /\ CallbackReturn(Writer, GetGVRForGVK(WriteGVK))
              /\ UNCHANGED <<sent, reqErr>>
         ELSE /\ sent' = Request(wcall)
              /\ \E e \in Response(VerbOf(wcall)) :
                    /\ reqErr' = e
                    /\ CallbackReturn(Writer, WriteCbError(wcall, e))
    /\ UNCHANGED <<handles, dryRunArg, wpc, wcall, polls, lastPoll, exists, cancelEarly, wErr>>
    /\ UNCHANGED <<apiWarnings, wWarnings>>
    /\ UNCHANGED <<fanVars, fixVars, initVars, resVars, proxyVars>>

\* The response to the write request or to a poll carries a Warning header.
WriteWarning ==
    /\ wpc \in {"request", "poll"}
    /\ HandleWarningHeader(Writer)
    /\ UNCHANGED <<fanVars, extVars>>

\* waitForDeletedObject: the loop calls GetSingleObject(ref).
BeginPoll ==
    /\ wpc' = "poll"
    /\ polls' = polls + 1
    /\ EnterSelect(Writer)
    /\ UNCHANGED <<wErr, wWarnings>>

\* withDynamicClientForGVK has returned to the write call: PatchObject and
\* UpdateObject return; DeleteSingleObject returns the error, or waits for
\* the deletion, or returns nil.
WriteContinue ==
    /\ wpc = "request"
    /\ pc[Writer] = "done"
    /\ IF wcall.op = "DeleteSingleObject" /\ retErr[Writer] = ErrNil
            /\ Waits(EffectiveDryRun(handles[wcall.h], wcall.ForceDryRun), wcall.NoWait)
         THEN BeginPoll
         ELSE Returns(retWarnings[Writer], retErr[Writer]) /\ UNCHANGED <<polls, poolVars>>
    /\ apiWarnings' = retWarnings[Writer]
    /\ UNCHANGED <<handles, dryRunArg, wcall, sent, lastPoll, exists, cancelEarly, reqErr>>
    /\ UNCHANGED <<fanVars, fixVars, initVars, resVars, proxyVars>>

\* The callback of GetSingleObject in the poll.
Poll ==
    /\ wpc = "poll"
    /\ pc[Writer] = "cb"
    /\ IF GetGVRForGVK(WriteGVK) # ErrNil
         THEN CallbackReturn(Writer, GetGVRForGVK(WriteGVK))
         ELSE \E e \in Response("get") : CallbackReturn(Writer, e)
    /\ UNCHANGED <<fanVars, extVars>>

\* Mutant of WaitEnds: the wait ends with the first poll, whatever it found.
WaitEndsAtOnce(e) == TRUE

\* if err != nil { ... return ... }: the poll's error ends the wait.
WaitEnds(e) == e # ErrNil

\* if errors.IsNotFound(err) { return nil }; return err
WaitError(e) == IF IsNotFound(e) THEN ErrNil ELSE e

\* Mutant of WaitWarnings: the warnings of the last poll are returned.
WaitWarningsOfPoll(deleteWarnings, pollWarnings) == pollWarnings

\* err = k.waitForDeletedObject(ref); return apiWarnings, err: the polls'
\* warnings are dropped (_, _, err := k.GetSingleObject(ref)) and the
\* delete request's are returned.
WaitWarnings(deleteWarnings, pollWarnings) == deleteWarnings

\* GetSingleObject has returned to waitForDeletedObject: not-found ends the
\* wait with nil, another error ends it with the error, and an object
\* found leads to the select between time.After and ctx.Done().
PollDone ==
    /\ wpc = "poll"
    /\ pc[Writer] = "done"
    /\ lastPoll' = retErr[Writer]
    /\ IF WaitEnds(retErr[Writer])
         THEN Returns(WaitWarnings(apiWarnings, retWarnings[Writer]), WaitError(retErr[Writer]))
         ELSE wpc' = "sleep" /\ UNCHANGED <<wErr, wWarnings>>
    /\ UNCHANGED <<handles, dryRunArg, wcall, sent, polls, exists, cancelEarly, reqErr, apiWarnings>>
    /\ UNCHANGED <<poolVars, fanVars, fixVars, initVars, resVars, proxyVars>>

\* case <-time.After(500 * time.Millisecond): continue
PollAgain ==
    /\ wpc = "sleep"
    /\ polls < MaxPolls
    /\ BeginPoll
    /\ UNCHANGED <<handles, dryRunArg, wcall, sent, lastPoll, exists, cancelEarly, reqErr, apiWarnings, wWarnings>>
    /\ UNCHANGED <<fanVars, fixVars, initVars, resVars, proxyVars>>

\* case <-k.ctx.Done(): return fmt.Errorf("failed waiting for deletion ...")
SleepCtxDone ==
    /\ wpc = "sleep"
    /\ ctxDone
    /\ Returns(apiWarnings, ErrWaitDeletion)
    /\ UNCHANGED <<handles, dryRunArg, wcall, sent, polls, lastPoll, exists, cancelEarly, reqErr, apiWarnings>>
    /\ UNCHANGED <<poolVars, fanVars, fixVars, initVars, resVars, proxyVars>>

\* The context is cancelled.
WriteCancel ==
    /\ Cancel
    /\ cancelEarly' =
          /\ exists
          /\ wpc # "returned"
          /\ ~(wpc \in {"request", "poll"} /\ pc[Writer] = "done" /\ retErr[Writer] # ErrNil)
    /\ UNCHANGED <<handles, dryRunArg, wpc, wcall, sent, polls, lastPoll, exists, wErr, reqErr, apiWarnings, wWarnings>>
    /\ UNCHANGED <<fanVars, fixVars, initVars, resVars, proxyVars>>

\* The server has finished deleting the object, or someone else removed it.
Disappear ==
    /\ exists
    /\ exists' = FALSE
    /\ UNCHANGED <<handles, dryRunArg, wpc, wcall, sent, polls, lastPoll, cancelEarly, wErr, reqErr, apiWarnings, wWarnings>>
    /\ UNCHANGED <<poolVars, fanVars, fixVars, initVars, resVars, proxyVars>>

\* k2 := k.ReadWrite()
MakeClone ==
    /\ wpc = "idle"
    /\ handles["k2"] = NoHandle
    /\ handles' = [handles EXCEPT !["k2"] = ReadWrite(handles["k"])]
    /\ UNCHANGED <<dryRunArg, wpc, wcall, sent, polls, lastPoll, exists, cancelEarly, wErr, reqErr, apiWarnings, wWarnings>>
    /\ UNCHANGED <<poolVars, fanVars, fixVars, initVars, resVars, proxyVars>>

\* The objects the Writer patches and updates: one that normalization
\* changes and one it leaves as it is.
WriteObjects ==
    {Object(Absent, List(<<Port(Absent)>>), Absent), Object(Absent, List(<<Port(Str("UDP"))>>), Absent)}

WriteInit ==
    /\ dryRunArg \in BOOLEAN
    /\ handles = [h \in Handles |-> IF h = "k" THEN NewK8sCluster(dryRunArg) ELSE NoHandle]
    /\ wpc = "idle"
    /\ wcall = NoCall
    /\ sent = NoRequest
    /\ polls = 0
    /\ lastPoll = ErrNil
    /\ exists = TRUE
    /\ cancelEarly = FALSE
    /\ wErr = ErrNil
    /\ reqErr = ErrNil
    /\ apiWarnings = <<>>
    /\ wWarnings = <<>>
    /\ ServerVersion = v1_21
    /\ mustPanics = TRUE
    /\ heap \in {[p \in Ptrs |-> IF p = "o" THEN x ELSE NoTree] : x \in WriteObjects}
    /\ fixpc = "idle"
    /\ fixArg = NoTree
    /\ fixRet = NilPtr

WriteNext ==
    \/ \E c \in Calls : WriteCall(c)
    \/ WriteCheckout
    \/ WriteCtxDone
    \/ WriteWarning
    \/ WriteRequest
    \/ WriteContinue
    \/ Poll
    \/ PollDone
    \/ PollAgain
    \/ SleepCtxDone
    \/ WriteCancel
    \/ Disappear
    \/ MakeClone
    \/ FixObjectForPatch

\* A constructed handle, dry-run or not, before its write call.
WriteSpecInit ==
    PoolInit /\ FanInit /\ resources = Kinds /\ WriteInit /\ ReinitIdle
        /\ ResolverIdle /\ ProxyIdle

SpecWrite == WriteSpecInit /\ [][WriteNext]_vars

\* The scheduling of the Writer: a goroutine that can take a step takes it.
WriteFairness ==
    /\ WF_vars(WriteCheckout)
    /\ WF_vars(WriteCtxDone)
    /\ WF_vars(WriteRequest)
    /\ WF_vars(WriteContinue)
    /\ WF_vars(Poll)
    /\ WF_vars(PollDone)
    /\ WF_vars(SleepCtxDone)

SpecWriteLive == SpecWrite /\ WriteFairness

(***************************************************************************)
(* Claims about the write calls.                                            *)
(***************************************************************************)
IsDelete == wcall.op = "DeleteSingleObject"

\* The call is a delete that is neither a dry run nor told not to wait.
WaitingEnabled ==
    /\ IsDelete
    /\ ~handles[wcall.h].DryRun
    /\ ~wcall.ForceDryRun
    /\ ~wcall.NoWait

\* C11: a DeleteSingleObject with waiting enabled that has returned nil has
\* made the delete request and at least one poll after it, and the last of
\* its polls returned not-found.
C11_SuccessAfterNotFound ==
    (wpc = "returned" /\ WaitingEnabled /\ wErr = ErrNil) =>
        /\ sent.verb = "delete"
        /\ polls >= 1
        /\ IsNotFound(lastPoll)

C11_Witness ==
    /\ wpc = "returned"
    /\ WaitingEnabled
    /\ wErr = ErrNil
    /\ polls = 3
    /\ IsNotFound(lastPoll)

CancelErrors == {ErrWaitClient, ErrCtx, ErrWaitDeletion}

\* C12: a DeleteSingleObject with waiting enabled whose context is cancelled
\* while the object is still there returns one of the cancellation errors,
\* neither nil nor a not-found error, and once the context is cancelled the
\* call does return.
C12_CancelledDeleteFails ==
    /\ []((wpc = "returned" /\ WaitingEnabled /\ cancelEarly) =>
            /\ wErr \in CancelErrors
            /\ wErr # ErrNil
            /\ ~IsNotFound(wErr))
    /\ (ctxDone /\ wpc \in {"request", "poll", "sleep"}) ~> (wpc = "returned")

C12_Witness ==
    /\ wpc = "returned"
    /\ WaitingEnabled
    /\ cancelEarly
    /\ polls >= 2
    /\ exists
    /\ wErr = ErrWaitDeletion

\* C13: a DeleteSingleObject on a dry-run handle, with ForceDryRun or with
\* NoWait makes no poll and is never in the polling loop; one with none of
\* the three that got nil from the delete request does poll.
C13_PollsOnlyWhenWaiting ==
    IsDelete =>
        /\ (handles[wcall.h].DryRun \/ wcall.ForceDryRun \/ wcall.NoWait)
              => polls = 0 /\ wpc \notin {"poll", "sleep"}
        /\ (WaitingEnabled /\ wpc = "returned" /\ wErr = ErrNil) => polls >= 1
        /\ polls > 0 => sent.verb = "delete"

C13_Witness ==
    /\ IsDelete
    /\ wpc = "returned"
    /\ wErr = ErrNil
    /\ wcall.ForceDryRun
    /\ ~wcall.NoWait
    /\ sent.verb = "delete"
    /\ sent.DryRun = <<"All">>
    /\ polls = 0
    /\ exists

\* C14: a write request carries the dry-run directive exactly when the call
\* sets ForceDryRun or is made on the handle itself and that was constructed
\* with dryRun = true; on the read-write clone only ForceDryRun counts.
C14_DryRunDirective ==
    /\ handles["k"].DryRun = dryRunArg
    /\ sent.verb # "none" =>
          /\ sent.verb \in {"patch", "update", "delete"}
          /\ sent.DryRun \in {<<>>, <<"All">>}
          /\ (sent.DryRun = <<"All">>) <=> ((wcall.h = "k" /\ dryRunArg) \/ wcall.ForceDryRun)

C14_Witness ==
    /\ sent.verb = "patch"
    /\ dryRunArg
    /\ wcall.h = "k2"
    /\ ~wcall.ForceDryRun
    /\ sent.DryRun = <<>>

PoolOf(h) == cluster[h].clientPool

RECURSIVE SizeUpTo(_, _)
SizeUpTo(es, g) ==
    IF g < 0 THEN 0 ELSE es[g] + SizeUpTo(es, g - 1)

\* The number of entries in the collection es.
Size(es) == SizeUpTo(es, MaxInits)

\* initClientPool's drain loop has ended when i < parallelClients fails.
DrainedAtOnce(i) == TRUE

Drained(i) == ~(i < parallelClients)

\* k2 := k.ReadWrite(): a copy of the struct (the channel reference is
\* copied, the channel is not) with DryRun cleared.
CloneHandle ==
    /\ cluster["k2"] = NoHandle
    /\ cluster' = [cluster EXCEPT !["k2"] = ReadWrite(cluster["k"])]
    /\ UNCHANGED <<pools, made, ipc, ih, ii, iOld, iErr, closed, cpc, ch, cchan, cheld>>
    /\ UNCHANGED <<poolVars, fanVars, fixVars, writeVars, resVars, proxyVars>>

\* h.initClientPool() on a handle that has a pool: k.clientPool != nil, so
\* the drain loop is entered with i = 0.
BeginInit(h) ==
    /\ ipc \in {"idle", "returned"}
    /\ made < MaxInits
    /\ cluster[h] # NoHandle
    /\ ipc' = "drain"
    /\ ih' = h
    /\ ii' = 0
    /\ iOld' = PoolOf(h)
    /\ iErr' = ErrNil
    /\ UNCHANGED <<cluster, pools, made, closed, cpc, ch, cchan, cheld>>
    /\ UNCHANGED <<poolVars, fanVars, fixVars, writeVars, resVars, proxyVars>>

\* One iteration of the drain loop: p := <-k.clientPool (blocks while the
\* channel is empty), p.http.CloseIdleConnections().
DrainStep ==
    /\ ipc = "drain"
    /\ ~Drained(ii)
    /\ \E g \in Chans :
        /\ pools[PoolOf(ih)][g] > 0
        /\ pools' = [pools EXCEPT ![PoolOf(ih)] = Put(@, g, -1)]
        /\ closed' = Put(closed, g, 1)
    /\ ii' = ii + 1
    /\ UNCHANGED <<cluster, made, ipc, ih, iOld, iErr, cpc, ch, cchan, cheld>>
    /\ UNCHANGED <<poolVars, fanVars, fixVars, writeVars, resVars, proxyVars>>

\* k.clientPool = make(chan *parallelClientEntry, parallelClients): the
\* field of the handle initClientPool was called on refers to a new, empty
\* channel; the build loop starts with i = 0.
MakeChan ==
    /\ ipc = "drain"
    /\ Drained(ii)
    /\ made' = made + 1
    /\ cluster' = [cluster EXCEPT ![ih].clientPool = made + 1]
    /\ ipc' = "build"
    /\ ii' = 0
    /\ UNCHANGED <<pools, ih, iOld, iErr, closed, cpc, ch, cchan, cheld>>
    /\ UNCHANGED <<poolVars, fanVars, fixVars, writeVars, resVars, proxyVars>>

\* One iteration of the build loop that succeeds: a new entry with its own
\* clients is sent to k.clientPool (the send blocks while the channel is full).
BuildStep ==
    /\ ipc = "build"
    /\ ii < parallelClients
    /\ Size(pools[PoolOf(ih)]) < parallelClients
    /\ pools' = [pools EXCEPT ![PoolOf(ih)] = Put(@, PoolOf(ih), 1)]
    /\ ii' = ii + 1
    /\ UNCHANGED <<cluster, made, ipc, ih, iOld, iErr, closed, cpc, ch, cchan, cheld>>
    /\ UNCHANGED <<poolVars, fanVars, fixVars, writeVars, resVars, proxyVars>>

\* One iteration of the build loop in which building a client fails:
\* initClientPool returns the error, the channel filled so far.
BuildFail ==
    /\ ipc = "build"
    /\ ii < parallelClients
    /\ ipc' = "returned"
    /\ iErr' = "err"
    /\ ii' = 0
    /\ UNCHANGED <<cluster, pools, made, ih, iOld, closed, cpc, ch, cchan, cheld>>
    /\ UNCHANGED <<poolVars, fanVars, fixVars, writeVars, resVars, proxyVars>>

\* The build loop ends: return nil.
InitReturn ==
    /\ ipc = "build"
    /\ ~(ii < parallelClients)
    /\ ipc' = "returned"
    /\ iErr' = ErrNil
    /\ ii' = 0
    /\ UNCHANGED <<cluster, pools, made, ih, iOld, closed, cpc, ch, cchan, cheld>>
    /\ UNCHANGED <<poolVars, fanVars, fixVars, writeVars, resVars, proxyVars>>

\* Goroutine t calls h.withClientFromPool(cb): the select evaluates
\* k.clientPool once and then waits to receive from that channel.
ReinitSelect(t, h) ==
    /\ cpc[t] = "idle"
    /\ cluster[h] # NoHandle
    /\ cpc' = [cpc EXCEPT ![t] = "select"]
    /\ ch' = [ch EXCEPT ![t] = h]
    /\ cchan' = [cchan EXCEPT ![t] = PoolOf(h)]
    /\ UNCHANGED <<cluster, pools, made, ipc, ih, ii, iOld, iErr, closed, cheld>>
    /\ UNCHANGED <<poolVars, fanVars, fixVars, writeVars, resVars, proxyVars>>

\* case p := <-k.clientPool: the callback runs on p.
ReinitCheckout(t) ==
    /\ cpc[t] = "select"
    /\ \E g \in Chans :
        /\ pools[cchan[t]][g] > 0
        /\ pools' = [pools EXCEPT ![cchan[t]] = Put(@, g, -1)]
        /\ cheld' = [cheld EXCEPT ![t] = g]
    /\ cpc' = [cpc EXCEPT ![t] = "callback"]
    /\ UNCHANGED <<cluster, made, ipc, ih, ii, iOld, iErr, closed, ch, cchan>>
    /\ UNCHANGED <<poolVars, fanVars, fixVars, writeVars, resVars, proxyVars>>

\* The callback returns and the deferred k.clientPool <- p runs: the entry
\* is sent to the channel the handle's field refers to now.
ReinitCheckin(t) ==
    /\ cpc[t] = "callback"
    /\ Size(pools[PoolOf(ch[t])]) < parallelClients
    /\ pools' = [pools EXCEPT ![PoolOf(ch[t])] = Put(@, cheld[t], 1)]
    /\ cpc' = [cpc EXCEPT ![t] = "idle"]
    /\ ch' = [ch EXCEPT ![t] = "k"]
    /\ cchan' = [cchan EXCEPT ![t] = 0]
    /\ cheld' = [cheld EXCEPT ![t] = NoBuild]
    /\ UNCHANGED <<cluster, made, ipc, ih, ii, iOld, iErr, closed>>
    /\ UNCHANGED <<poolVars, fanVars, fixVars, writeVars, resVars, proxyVars>>

\* The handle NewK8sCluster returned, dry-run or not.
ReinitInit ==
    /\ \E d \in BOOLEAN :
        cluster = [h \in Handles |->
            IF h = "k" THEN [NewK8sCluster(d) EXCEPT !.clientPool = 0] ELSE NoHandle]
    /\ pools = [c \in Chans |-> IF c = 0 THEN Put(NoEntries, 0, parallelClients) ELSE NoEntries]
    /\ made = 0
    /\ ipc = "idle"
    /\ ih = "k"
    /\ ii = 0
    /\ iOld = 0
    /\ iErr = ErrNil
    /\ closed = NoEntries
    /\ cpc = [t \in Threads |-> "idle"]
    /\ ch = [t \in Threads |-> "k"]
    /\ cchan = [t \in Threads |-> 0]
    /\ cheld = [t \in Threads |-> NoBuild]

ReinitNext ==
    \/ CloneHandle
    \/ \E h \in Handles : BeginInit(h)
    \/ DrainStep
    \/ MakeChan
    \/ BuildStep
    \/ BuildFail
    \/ InitReturn
    \/ \E t \in Threads, h \in Handles : ReinitSelect(t, h)
    \/ \E t \in Threads : ReinitCheckout(t)
    \/ \E t \in Threads : ReinitCheckin(t)

\* A constructed handle, dry-run or not, with a full pool and no clone yet.
ReinitSpecInit ==
    PoolInit /\ FanInit /\ resources = Kinds /\ FixIdle /\ WriteIdle /\ ReinitInit
        /\ ResolverIdle /\ ProxyIdle

SpecReinit == ReinitSpecInit /\ [][ReinitNext]_vars

\* The goroutines whose callback is running.
ExecutingOn == {t \in Threads : cpc[t] = "callback"}

\* The entries of channel c: those buffered in it and those checked out of it.
PoolEntries(c) ==
    [g \in Chans |->
        pools[c][g] + Cardinality({t \in ExecutingOn : cchan[t] = c /\ cheld[t] = g})]

\* ---------------------------------------------------------------------
\* Claims about pool re-initialization and read-write clones.
\* ---------------------------------------------------------------------

\* The handles that exist: the constructed one and, once made, its clone.
Live == {h \in Handles : cluster[h] # NoHandle}

\* C15: a handle and every read-write clone made from it draw from one and
\* the same client pool at all times, also after a pool re-initialization on
\* either of them, so no more than parallelClients calls execute at once
\* across them; ReadWrite leaves the original handle's dry-run flag as it was.
C15_OnePool ==
    /\ \A h1, h2 \in Live : PoolOf(h1) = PoolOf(h2)
    /\ Cardinality(ExecutingOn) <= parallelClients
    /\ cluster["k2"] # NoHandle => ~cluster["k2"].DryRun

\* C20: pool re-initialization takes all parallelClients entries out of the
\* existing pool, closing the idle connections of each, before it builds a
\* new entry: while the new entries are built no call executes on an entry
\* of an earlier build, and once initClientPool has returned nil the
\* handle's pool has exactly parallelClients entries, all of the new build.
C20_DrainThenBuild ==
    /\ ipc = "build" =>
        /\ Size(pools[iOld]) = 0
        /\ closed[iOld] = parallelClients
        /\ \A t \in ExecutingOn : cheld[t] = PoolOf(ih)
    /\ (ipc = "returned" /\ iErr = ErrNil) =>
        PoolEntries(PoolOf(ih)) = Put(NoEntries, PoolOf(ih), parallelClients)

\* A re-initialization has returned nil on a handle that has a clone, and a
\* call is executing on an entry of the new build.
C20_Witness ==
    /\ ipc = "returned"
    /\ iErr = ErrNil
    /\ made >= 1
    /\ cluster["k2"] # NoHandle
    /\ \E t \in ExecutingOn : cheld[t] = PoolOf(ih)

\* C26: a DeleteSingleObject that waits for the deletion holds no pool entry
\* between polls: the entry of the delete request and the entry of each poll
\* are back in the pool before the wait's select (the 500 ms sleep) starts
\* and before the next poll asks for an entry, so the waiting call leaves
\* all parallelClients entries to other callers.
C26_NoEntryBetweenPolls ==
    (wpc = "sleep" \/ (wpc = "poll" /\ pc[Writer] = "select")) =>
        /\ held[Writer] = NoEntry
        /\ Len(clientPool) = parallelClients

\* The wait sleeps after its second poll.
C26_Witness ==
    /\ wpc = "sleep"
    /\ polls >= 2
    /\ sent.verb = "delete"

\* The delete request has been answered and DeleteSingleObject has gone on.
DeleteAnswered ==
    /\ wpc \in {"poll", "sleep", "returned"}
    /\ sent.verb = "delete"

\* C27: when the delete request fails, DeleteSingleObject returns that error
\* and makes no poll; not-found is such a failure unless IgnoreNotFoundError
\* is set, and then the call goes on as after a successful delete request:
\* it polls exactly when waiting is enabled and returns nil otherwise.
C27_DeleteRequestFailure ==
    DeleteAnswered =>
        IF reqErr # ErrNil /\ ~(wcall.IgnoreNotFoundError /\ IsNotFound(reqErr))
          THEN /\ wpc = "returned"
               /\ wErr = reqErr
               /\ polls = 0
          ELSE IF WaitingEnabled
                 THEN polls >= 1
                 ELSE /\ wpc = "returned"
                      /\ wErr = ErrNil
                      /\ polls = 0

\* A delete with IgnoreNotFoundError was answered not-found and went on to poll.
C27_Witness ==
    /\ DeleteAnswered
    /\ wcall.IgnoreNotFoundError
    /\ IsNotFound(reqErr)
    /\ polls >= 1

\* C28: a poll of the deletion wait that fails with an error other than
\* not-found ends the wait: DeleteSingleObject has returned that error with
\* the warnings of the delete request, without another poll.
C28_PollErrorEndsWait ==
    (polls >= 1 /\ wpc # "poll" /\ lastPoll \notin {ErrNil, ErrNotFound}) =>
        /\ wpc = "returned"
        /\ wErr = lastPoll
        /\ wWarnings = apiWarnings

\* The second poll failed, with a warning the delete request did not have.
C28_Witness ==
    /\ wpc = "returned"
    /\ polls = 2
    /\ lastPoll = ErrOther
    /\ wErr = ErrOther
    /\ apiWarnings = <<>>
    /\ retWarnings[Writer] # <<>>
    /\ wWarnings = <<>>

(***************************************************************************)
(* Claims about the concurrency of the fan-out operations.                  *)
(***************************************************************************)
\* C21: in ListAllObjects and GetObjectsByRefs the worker that holds the
\* result mutex has no network call outstanding and neither holds nor waits
\* for a pool entry: its list/get call has returned.
C21_MutexOnlyForMerge ==
    \A u \in Threads :
        mutex = u =>
            /\ pc[u] = "done"
            /\ held[u] = NoEntry
            /\ uState[u] = "locked"

\* A worker holds the mutex while another worker's call is outstanding on a
\* pool entry.
C21_Witness ==
    /\ mutex \in Units
    /\ \E u \in Units : u # mutex /\ pc[u] = "cb" /\ held[u] \in Entries

\* The units whose list/get call was begun.
Started == {u \in Units : uState[u] \in {"running", "locked", "finished"}}

\* C24: in ListAllObjects each unit lists its own kind, the kind of the loop
\* iteration that submitted it, so that no filtered kind is listed twice or
\* skipped by the units that run, and the warnings recorded under a kind are
\* those of the list call made for that kind, in every interleaving of the
\* submitting loop and the workers.
C24_EachKindListedOnce ==
    op = "ListAllObjects" =>
        /\ \A u \in Started : uKey[u] = units[u]
        /\ \A u, v \in Started : u # v => uKey[u] # uKey[v]
        /\ \A key \in DOMAIN retApiWarnings :
              \E u \in Finished : uKey[u] = key /\ retWarnings[u] = retApiWarnings[key]

(***************************************************************************)
(* The fan-out operations under the scheduler.  Every unit is a goroutine   *)
(* that runs once and every step of it moves it forward, so all the         *)
(* scheduler has to grant is that some goroutine takes a step as long as    *)
(* one can: a network call that was made returns, a free worker starts a    *)
(* queued unit, a receiver takes an entry that is in the channel.  The      *)
(* context is not cancelled and the resolver is not refreshed; server       *)
(* warnings play no part in who proceeds and are left out.                  *)
(***************************************************************************)
FanLiveNext ==
    \/ \E refs \in RefSeqs : BeginGetObjectsByRefs(refs)
    \/ \E vs \in VerbArgs, own \in BOOLEAN : BeginListAllObjects(vs, own)
    \/ Submit
    \/ \E u \in Threads : StartUnit(u)
    \/ \E u \in Threads : DropUnit(u)
    \/ \E u \in Threads : UnitCheckout(u)
    \/ \E u \in Threads : UnitCallback(u)
    \/ \E u \in Threads : ListUnitFail(u)
    \/ \E u \in Threads : UnitLock(u)
    \/ \E u \in Threads : UnitMerge(u)
    \/ StopWait

FanFairness == WF_vars(FanLiveNext)

SpecFanoutLive == PoolSpecInit /\ [][FanLiveNext]_vars /\ FanFairness

\* C25: no goroutine asks for a pool entry while it holds one, so the
\* fan-out calls cannot deadlock on the pool: with every network call
\* returning and the context not cancelled, a fan-out call returns, also
\* when more units run at once than the pool has entries, and when no
\* unit failed every unit was completed.
C25_FanoutCompletes ==
    /\ [](\A t \in Threads : pc[t] = "select" => held[t] = NoEntry)
    /\ []((fpc = "returned" /\ wpErr = ErrNil) => Finished = Units)
    /\ (fpc = "loop") ~> (fpc = "returned")

\* More units are running than the pool has entries: all entries are out
\* and a unit waits for one.
C25_Witness ==
    /\ Cardinality(Running) > parallelClients
    /\ clientPool = <<>>
    /\ \E u \in Units : pc[u] = "select"

(***************************************************************************)
(* ProxyGet, among goroutines that make other calls on the pool.            *)
(***************************************************************************)
\* Goroutine t calls ProxyGet, which enters withClientFromPool.
ProxyCall(t) ==
    /\ ppc[t] = "none"
    /\ pc[t] \in {"idle", "done", "panicked"}
    /\ ppc' = [ppc EXCEPT ![t] = "call"]
    /\ EnterSelect(t)
    /\ UNCHANGED wrapper
    /\ UNCHANGED <<fanVars, fixVars, writeVars, initVars, resVars>>

\* case <-k.ctx.Done(): withClientFromPool returns the error and ProxyGet
\* returns nil and that error.
ProxyCtxDone(t) ==
    /\ ppc[t] = "call"
    /\ SelectCtxDone(t)
    /\ ppc' = [ppc EXCEPT ![t] = "none"]
    /\ UNCHANGED wrapper
    /\ UNCHANGED <<fanVars, fixVars, writeVars, initVars, resVars>>

\* The callback of ProxyGet: ret = p.corev1.Services(namespace).ProxyGet(...)
\* builds the request on the entry's client without sending it, and returns
\* nil; the deferred function sends the entry back.
ProxyCallback(t) ==
    /\ ppc[t] = "call"
    /\ wrapper' = [wrapper EXCEPT ![t] = held[t]]
    /\ CallbackReturn(t, ErrNil)
    /\ ppc' = [ppc EXCEPT ![t] = "built"]
    /\ UNCHANGED <<fanVars, fixVars, writeVars, initVars, resVars>>

\* return ret.Stream(k.ctx): the request is sent through the client of the
\* entry ret was built on.
ProxyStream(t) ==
    /\ ppc[t] = "built"
    /\ pc[t] = "done"
    /\ ppc' = [ppc EXCEPT ![t] = "streaming"]
    /\ UNCHANGED wrapper
    /\ UNCHANGED <<poolVars, fanVars, fixVars, writeVars, initVars, resVars>>

\* The response to the request of Stream carries a Warning header: that
\* entry, the WarningHandler of its clients, appends it to p.warnings.
ProxyWarning(t) ==
    /\ ppc[t] = "streaming"
    /\ Len(raised[t]) < Len(WarningTexts)
    /\ warnings' = [warnings EXCEPT ![wrapper[t]] = Append(@, ApiWarning(Len(raised[t]) + 1))]
    /\ raised' = [raised EXCEPT ![t] = Append(@, ApiWarning(Len(@) + 1))]
    /\ UNCHANGED <<clientPool, ctxDone, pc, held, retWarnings, retErr>>
    /\ UNCHANGED <<fanVars, extVars>>

\* Stream returns the response body and ProxyGet returns.
ProxyReturn(t) ==
    /\ ppc[t] = "streaming"
    /\ ppc' = [ppc EXCEPT ![t] = "none"]
    /\ wrapper' = [wrapper EXCEPT ![t] = NoEntry]
    /\ UNCHANGED <<poolVars, fanVars, fixVars, writeVars, initVars, resVars>>

\* The goroutine is not in ProxyGet.
Plain(t) == ppc[t] = "none"

\* The callback of another call on the pool returns nil.
PlainCallback(t) ==
    /\ Plain(t)
    /\ CallbackReturn(t, ErrNil)
    /\ UNCHANGED <<fanVars, extVars>>

ProxyNext ==
    \/ \E t \in Threads : ProxyCall(t)
    \/ \E t \in Threads : ProxyCtxDone(t)
    \/ \E t \in Threads : ProxyCallback(t)
    \/ \E t \in Threads : ProxyStream(t)
    \/ \E t \in Threads : ProxyWarning(t)
    \/ \E t \in Threads : ProxyReturn(t)
    \/ \E t \in Threads : Plain(t) /\ Call(t)
    \/ \E t \in Threads : CallerCheckout(t)
    \/ \E t \in Threads : Plain(t) /\ CallerCtxDone(t)
    \/ \E t \in Threads : Plain(t) /\ CallerWarning(t)
    \/ \E t \in Threads : PlainCallback(t)
    \/ CallerCancel

SpecProxy == PoolSpecInit /\ [][ProxyNext]_vars

\* C23: every network request made through a pool entry's clients is made
\* while the caller making it has that entry checked out; ProxyGet makes
\* its request while it holds the entry, so no request and no warning of
\* one caller lands on an entry another caller owns.
C23_RequestsOnOwnEntry ==
    \A t \in Threads :
        ppc[t] = "streaming" =>
            /\ held[t] = wrapper[t]
            /\ \A u \in Threads : u # t => held[u] # wrapper[t]

(***************************************************************************)
(* The resolver's refresh (k8sResources.updateResources) with goroutines    *)
(* resolving kinds meanwhile.  The refresh builds a new map from what       *)
(* discovery reports and then makes the cache refer to it.                  *)
(***************************************************************************)
\* Mutant of FillTarget: the refresh empties the cache map and fills it.
FillInPlace == "cache"

\* The map the refresh fills: a new one, not the one the cache refers to.
FillTarget == "fresh"

\* The kinds the refresh has put into the map it fills.
Filled == IF FillTarget = "cache" THEN resources ELSE fresh

\* updateResources begins: discovery reports the kinds of snap and the map
\* to fill is empty.
RefreshBegin(snap) ==
    /\ rpc = "idle"
    /\ rpc' = "filling"
    /\ target' = snap
    /\ before' = resources
    /\ fresh' = {}
    /\ resources' = IF FillTarget = "cache" THEN {} ELSE resources
    /\ looked' = NoLookup
    /\ UNCHANGED <<op, verbs, perIteration, units, next, fpc, uState, uKey,
                   mutex, ret, retApiWarnings, wpErr, wpStopped, out>>
    /\ UNCHANGED <<poolVars, fixVars, writeVars, initVars, proxyVars>>

\* The refresh puts the mapping of kind g into the map it fills.
RefreshAdd(g) ==
    /\ rpc = "filling"
    /\ g \in target \ Filled
    /\ IF FillTarget = "cache"
         THEN resources' = resources \cup {g} /\ UNCHANGED fresh
         ELSE fresh' = fresh \cup {g} /\ UNCHANGED resources
    /\ UNCHANGED <<rpc, target, before, looked>>
    /\ UNCHANGED <<op, verbs, perIteration, units, next, fpc, uState, uKey,
                   mutex, ret, retApiWarnings, wpErr, wpStopped, out>>
    /\ UNCHANGED <<poolVars, fixVars, writeVars, initVars, proxyVars>>

\* The map is complete: the cache refers to it from now on.
RefreshSwap ==
    /\ rpc = "filling"
    /\ Filled = target
    /\ resources' = Filled
    /\ fresh' = {}
    /\ rpc' = "idle"
    /\ UNCHANGED <<target, before, looked>>
    /\ UNCHANGED <<op, verbs, perIteration, units, next, fpc, uState, uKey,
                   mutex, ret, retApiWarnings, wpErr, wpStopped, out>>
    /\ UNCHANGED <<poolVars, fixVars, writeVars, initVars, proxyVars>>

\* Goroutine t resolves kind g in the callback of withDynamicClientForGVK:
\* gvr, namespaced, err := k.Resources.GetGVRForGVK(gvk).  The record keeps
\* what it found, the kinds the cache mapped before the refresh that is
\* running and the kinds it will map after it, and how far the refresh was.
Resolve(t, g) ==
    /\ looked' = [gvk |-> g,
                  by |-> t,
                  found |-> GetGVRForGVK(g) = ErrNil,
                  old |-> IF rpc = "filling" THEN before ELSE resources,
                  new |-> IF rpc = "filling" THEN target ELSE resources,
                  filled |-> IF rpc = "filling" THEN Filled ELSE resources]
    /\ UNCHANGED <<rpc, fresh, target, before>>
    /\ UNCHANGED <<poolVars, fanVars, fixVars, writeVars, initVars, proxyVars>>

ResolverNext ==
    \/ \E snap \in Snapshots : RefreshBegin(snap)
    \/ \E g \in Kinds : RefreshAdd(g)
    \/ RefreshSwap
    \/ \E t \in Threads, g \in Kinds : Resolve(t, g)

\* A constructed handle whose resolver has made its first refresh.
ResolverSpecInit == Init

SpecResolver == ResolverSpecInit /\ [][ResolverNext]_vars

\* C22: a kind resolution made while a refresh runs finds what the complete
\* old mapping or the complete new mapping has for the kind: a kind that
\* both map is found, a kind that neither maps is not.
C22_RefreshAtomic ==
    looked # NoLookup =>
        \/ looked.found = (looked.gvk \in looked.old)
        \/ looked.found = (looked.gvk \in looked.new)

\* A kind that the old and the new mapping both have was resolved while the
\* refresh had filled in only a part of the new map.
C22_Witness ==
    /\ looked # NoLookup
    /\ looked.gvk \in looked.old \cap looked.new
    /\ looked.old # looked.new
    /\ looked.gvk \notin looked.filled
    /\ looked.filled # {}
    /\ looked.found

\* ---------------------------------------------------------------------
\* Progress of calls and of a re-initialization that run together.
\* ---------------------------------------------------------------------

\* The scheduler runs every goroutine that can take a step; a receiver that
\* waits on a channel gets an entry if entries keep arriving (receivers
\* queue in order of arrival).  Whether a goroutine makes another call,
\* whether a handle is cloned or re-initialized and whether building a
\* client fails is not up to the scheduler.
ReinitFairness ==
    /\ \A t \in Threads : SF_vars(ReinitCheckout(t)) /\ WF_vars(ReinitCheckin(t))
    /\ SF_vars(DrainStep)
    /\ WF_vars(MakeChan)
    /\ WF_vars(BuildStep)
    /\ WF_vars(InitReturn)

SpecReinitLive == ReinitSpecInit /\ [][ReinitNext]_vars /\ ReinitFairness

\* Goroutine t waits in the select of withClientFromPool on the handle
\* whose initClientPool is in its drain loop.
BlockedDuringInit(t) ==
    /\ cpc[t] = "select"
    /\ ipc = "drain"
    /\ ch[t] = ih

\* No client fails to build and the handle has no clone: what happens then
\* is due to initClientPool and withClientFromPool alone.
PlainReinit == iErr = ErrNil /\ cluster["k2"] = NoHandle

\* A caller that waits for a free client while initClientPool runs on its
\* handle is eventually served.
BlockedServed ==
    \A t \in Threads : BlockedDuringInit(t) ~> (cpc[t] = "callback")

\* An initClientPool that started while entries of the handle's pool were
\* checked out eventually returns.
InitCompletes ==
    (ipc = "drain" /\ \E t \in ExecutingOn : cchan[t] = PoolOf(ih))
        ~> (ipc = "returned")

\* C31: when no build fails and the handle has no clone, a caller that
\* waits for a free client while initClientPool runs on its handle is
\* eventually served, and an initClientPool that started while entries
\* were checked out eventually returns.
C31_BlockedServedInitCompletes ==
    []PlainReinit => (BlockedServed /\ InitCompletes)

\* The second half of C31 alone: the re-initialization does return.
C31_InitCompletesAlone ==
    []PlainReinit => InitCompletes

\* The first half of C31 alone.
C31_BlockedServedAlone ==
    []PlainReinit => BlockedServed

====
